---- MODULE Spec2Model ----
(***************************************************************************)
(* A model of rim's install engine (src/src/core/install.rs):              *)
(* InstallConfiguration::install and ::update and the steps they drive --  *)
(* conflict rejection, setup, environment and cargo configuration, the two *)
(* tool phases around the toolchain install, obsolete-tool removal and the *)
(* installation record (fingerprint) in memory and on disk.                *)
(*                                                                         *)
(* The progress handler is an external collaborator whose calls are taken  *)
(* to succeed; every other fallible step fails nondeterministically.       *)
(*                                                                         *)
(* After the engine come the operations on a manifest and on an archive,   *)
(* each with a specification of its own: fill_missing_package_source,      *)
(* load / package_root / adjust_paths, the parsing and serialization of a  *)
(* tool entry, and the unpacking of an archive by the tool pipeline.       *)
(*                                                                         *)
(* Then the services around the engine, again one specification each:      *)
(* extract_nested_archive on archives nested inside each other, move_to    *)
(* (utils/file_system.rs), the toolkit list of the server and the latest   *)
(* installable toolkit (core/toolkit.rs), the cache of toolkit manifests   *)
(* (core/toolkit_manifest_ext.rs), and the sources of cargo and rustup     *)
(* that a manifest and the user may override.                              *)
(*                                                                         *)
(* Last the applications on top of the core: toolkit_version of the        *)
(* installer window (rim_gui/src-tauri/src/installer_mode.rs),             *)
(* Toolkit::installed with its INSTALLED_KIT cell, and the command         *)
(* `component install` (src/cli/component.rs), which runs on the engine.   *)
(***************************************************************************)
EXTENDS Integers, Sequences, FiniteSets, TLC

VARIABLES
    mode,                   \* the entry point: "install", "update", "component"
    toolchain,              \* split_components: toolchain components are selected
    tools,                  \* the manifest's tools: name -> ToolInfo
    selected,               \* names of the tools among the selected components
    record0,                \* the tools of the record file when the run began
    pc,                     \* position inside install()
    result,                 \* what install() returned: "none" while running
    errors,                 \* InstallationErrors of the run
    install_record,         \* InstallConfiguration.install_record (in memory)
    record_file,            \* install-record.toml on disk
    disk,                   \* what is really on disk under install_dir
    toolchain_is_installed, \* InstallConfiguration.toolchain_is_installed
    master,                 \* the master progress bar
    use_rust,               \* the tool phase being run: FALSE early, TRUE late
    to_install,             \* tools of the phase still waiting for their attempt
    trace,                  \* install and uninstall attempts, in order
    fill,                   \* a call of fill_missing_package_source
    paths,                  \* a call of load, package_root and adjust_paths
    toml,                   \* a manifest entry parsed, serialized, parsed again
    extract,                \* an archive unpacked by the tool pipeline
    nested,                 \* a call of extract_nested_archive and its recursion
    move,                   \* a call of utils::move_to
    catalog,                \* the dist server's toolkit list and its callers
    cache,                  \* the manifest cache and the calls that use it
    config,                 \* the sources an InstallConfiguration answers with
    gui,                    \* the installer window's TOOLKIT_MANIFEST and its calls
    kit,                    \* the INSTALLED_KIT cell and the installation record
    cli                     \* a run of the `component install` command

\* What the operations on manifests and archives work on; the engine leaves
\* it alone.
offline == <<fill, paths, toml, extract>>

\* What the operations on files, on the dist server's lists and on the
\* configured sources work on; the engine leaves it alone as well.
\* What the applications on top of the core keep: the installer window, the
\* installed toolkit and the command line.
apps == <<gui, kit, cli>>

services == <<nested, move, catalog, cache, config, apps>>

inputs == <<mode, toolchain, tools, selected, record0, offline, services>>

\* The state of an engine run.
engine == <<mode, toolchain, tools, selected, record0, pc, result, errors,
            install_record, record_file, disk, toolchain_is_installed,
            master, use_rust, to_install, trace>>

vars == <<engine, fill, paths, toml, extract, services>>

-----------------------------------------------------------------------------
(* Bounds of the model. *)

\* Tool names of the manifest, and the order the manifest declares them in.
Names == {"a", "b", "c"}
DeclOrder == <<"a", "b", "c", "d">>
\* The names of a manifest with one tool more, whose phases hold four tools.
PhaseNames == Names \cup {"d"}

\* Most entries over all `requires` lists of a manifest.
MaxRequires == 2
\* Most entries over all `conflicts` lists of a manifest (engine runs).
MaxConflicts == 1
\* Most entries over all `obsoletes` lists of a manifest.
MaxObsoletes == 2

-----------------------------------------------------------------------------
(* Program constants. *)

MasterLen == 100       \* ProgressKind::Len(100)
SetupDelta == 5        \* setup: inc_progress(5)
CargoDelta == 3        \* config_cargo: inc_progress(3)
ToolsWeight == 30      \* install_tools / install_tools_late weight
RustDelta == 30        \* install_rust: inc_progress(30)
UpdateEnvDelta == 10   \* update: inc_progress(10)
UpdateRustDelta == 60  \* update_toolchain: inc_progress(60)
UpdateToolsWeight == 15 \* update_tools: weight of each tool phase

-----------------------------------------------------------------------------
(* Sequence helpers. *)

Range(s) == {s[i] : i \in DOMAIN s}

Reverse(s) == [i \in 1..Len(s) |-> s[Len(s) + 1 - i]]

IndexOf(s, x) == CHOOSE i \in DOMAIN s : s[i] = x

-----------------------------------------------------------------------------
(* ToolInfo (rim_common/src/types/tool_info.rs).  A ToolInfo is a record   *)
(*   [source, requires, obsoletes, conflicts]                              *)
(* where source is the form of the package source: "Basic" for the bare    *)
(* version string, "Version", "Git", "Path", "Url", "Restricted" (source   *)
(* filled in), "RestrictedUnset" (source still None) or "NoSource".        *)

Sources == {"Basic", "Version", "Git", "Path", "Url", "Restricted",
            "RestrictedUnset", "NoSource"}

is_cargo_tool(info) == info.source \in {"Basic", "Version", "Git"}

dependencies(info) == info.requires

obsoletes(info) == info.obsoletes

conflicts(info) == info.conflicts

\* The filter of install_tools_: the tool needs the toolchain.
requires_toolchain(info) ==
    is_cargo_tool(info) \/ "rust" \in dependencies(info)

-----------------------------------------------------------------------------
(* The ToolMap handed to install(): the selected tools in map order. *)

ToolMapOrder == SelectSeq(DeclOrder, LAMBDA n : n \in selected)

\* `name < conflicted_name` on the names of the model.
NameLt(x, y) == IndexOf(DeclOrder, x) < IndexOf(DeclOrder, y)

\* Faulty variant: the names that are not in the map are not skipped.
ConflictPairs_NoSkip ==
    { IF NameLt(n, c) THEN <<n, c>> ELSE <<c, n>> :
        <<n, c>> \in { p \in selected \X Names :
                         p[2] \in conflicts(tools[p[1]]) } }

\* The HashSet of sorted pairs reject_conflicting_tools collects.
ConflictPairs ==
    { IF NameLt(n, c) THEN <<n, c>> ELSE <<c, n>> :
        <<n, c>> \in { p \in selected \X Names :
                         /\ p[2] \in conflicts(tools[p[1]])
                         /\ p[2] \in selected } }

\* reject_conflicting_tools(tools) bails.
reject_conflicting_tools == ConflictPairs # {}

-----------------------------------------------------------------------------
(* DependencyHandler::topological_sorted: tools in an order where a tool   *)
(* stands before every tool it requires, ties in list order.               *)

RECURSIVE TopoFrom(_, _)
TopoFrom(remaining, acc) ==
    IF remaining = <<>> THEN acc
    ELSE LET free(i) == \A j \in DOMAIN remaining :
                            remaining[i] \notin dependencies(tools[remaining[j]])
             k == CHOOSE i \in DOMAIN remaining :
                     /\ free(i)
                     /\ \A j \in 1..(i - 1) : ~free(j)
         IN TopoFrom(SelectSeq(remaining, LAMBDA n : n # remaining[k]),
                     Append(acc, remaining[k]))

topological_sorted(list) == TopoFrom(list, <<>>)

\* The `requires` graph restricted to the tools has no cycle.
RECURSIVE Acyclic(_, _)
Acyclic(req, S) ==
    \/ S = {}
    \/ \E n \in S : /\ \A m \in S : n \notin req[m]
                    /\ Acyclic(req, S \ {n})

-----------------------------------------------------------------------------
(* install_tools_: the tools of a phase, in the order of their attempts.   *)

\* Faulty variant: the filter forgets the phase.
Filtered_NoPhase(late) == ToolMapOrder

Filtered(late) ==
    SelectSeq(ToolMapOrder, LAMBDA n : requires_toolchain(tools[n]) = late)

\* Faulty variant: the sorted list is not reversed.
PhaseOrder_NoReverse(late) ==
    topological_sorted(
        SelectSeq(ToolMapOrder,
                  LAMBDA n : requires_toolchain(tools[n]) = late))

PhaseOrder(late) == Reverse(topological_sorted(Filtered(late)))

sub_progress_delta(weight, late) == weight \div Len(Filtered(late))

-----------------------------------------------------------------------------
(* The manifests and selections the runs start from. *)

BaseTool == [source |-> "Url", requires |-> {}, obsoletes |-> <<>>,
             conflicts |-> {}]

\* Number of entries over all lists of a family of sets.
RECURSIVE Entries(_, _)
Entries(f, S) ==
    IF S = {} THEN 0
    ELSE LET n == CHOOSE x \in S : TRUE
         IN Cardinality(f[n]) + Entries(f, S \ {n})

\* Conflicts lists; a list may name the tool itself or an unselected tool.
ConflictMaps(max) ==
    {c \in [Names -> SUBSET Names] : Entries(c, Names) <= max}

\* Requires lists over the tools and "rust", without self-loops and cycles.
RequireMaps(max) ==
    {r \in [Names -> SUBSET (Names \cup {"rust"})] :
        /\ Entries(r, Names) <= max
        /\ \A n \in Names : n \notin r[n]
        /\ Acyclic(r, Names)}

\* Obsoletes lists: up to two other tools per list, in either order.
ObsoleteLists(n) ==
    {<<>>} \cup {<<m>> : m \in Names \ {n}}
           \cup {<<m, k>> : <<m, k>> \in
                    {p \in (Names \ {n}) \X (Names \ {n}) : p[1] # p[2]}}

ObsoleteMaps(max) ==
    {o \in [Names -> UNION {ObsoleteLists(n) : n \in Names}] :
        /\ \A n \in Names : o[n] \in ObsoleteLists(n)
        /\ Entries([n \in Names |-> Range(o[n])], Names) <= max}

\* Package sources of the tools: early (Url) or late (Version) ones.
SourceMaps == [Names -> {"Url", "Version"}]

TypeOK ==
    /\ DOMAIN tools \in {Names, PhaseNames}
    /\ \A n \in DOMAIN tools :
          tools[n] \in [source : Sources,
                        requires : SUBSET (Names \cup {"rust"}),
                        obsoletes : Seq(Names),
                        conflicts : SUBSET Names]
    /\ mode \in {"install", "update", "component"}
    /\ toolchain \in BOOLEAN
    /\ selected \subseteq PhaseNames
    /\ record0 \subseteq PhaseNames
    /\ install_record.tools \subseteq PhaseNames
    /\ record_file.tools \subseteq PhaseNames
    /\ disk.tools \subseteq PhaseNames
    /\ toolchain_is_installed \in BOOLEAN
    /\ use_rust \in BOOLEAN

\* No application is running.
NoApp == gui = "idle" /\ kit = "idle" /\ cli = "idle"

\* No operation on files, lists or sources is under way.
NoService ==
    /\ nested = "idle" /\ move = "idle" /\ catalog = "idle"
    /\ cache = "idle" /\ config = "idle"
    /\ NoApp

\* InstallConfiguration::new: the record is loaded from the file when there
\* is one, the toolchain flag starts false; nothing else has happened yet.
StartOfRun(fp0) ==
    /\ record0 = fp0
    /\ pc = mode
    /\ result = "none"
    /\ errors = [tool_errors |-> <<>>, rust_error |-> "none",
                 step_errors |-> <<>>]
    /\ install_record = [tools |-> fp0, rust |-> FALSE]
    /\ record_file = [tools |-> fp0, rust |-> FALSE]
    /\ disk = [setup |-> FALSE, env |-> FALSE, cargo |-> FALSE,
               rust |-> FALSE, tools |-> fp0]
    /\ toolchain_is_installed = FALSE
    /\ master = [started |-> FALSE, len |-> 0, pos |-> 0, finished |-> FALSE]
    /\ use_rust = FALSE
    /\ to_install = <<>>
    /\ trace = <<>>

\* A run of the engine: no other operation is under way.
InitRun(fp0) ==
    /\ fill = "idle" /\ paths = "idle" /\ toml = "idle" /\ extract = "idle"
    /\ NoService
    /\ StartOfRun(fp0)

\* Runs that differ in what is selected and which tools conflict.
InitConflicts ==
    /\ \E c \in ConflictMaps(MaxConflicts) :
          tools = [n \in Names |-> [BaseTool EXCEPT !.conflicts = c[n]]]
    /\ selected \in SUBSET Names
    /\ mode = "install" /\ toolchain = TRUE
    /\ InitRun({})

\* Runs that differ in the phases of the tools and in what they require.
InitRequires ==
    /\ \E s \in SourceMaps, r \in RequireMaps(MaxRequires) :
          tools = [n \in Names |->
                      [BaseTool EXCEPT !.source = s[n], !.requires = r[n]]]
    /\ selected = Names
    /\ mode = "install" /\ toolchain = TRUE
    /\ InitRun({})

\* Runs that differ in the earlier fingerprint and in what is obsoleted.
InitObsoletes ==
    /\ \E o \in ObsoleteMaps(MaxObsoletes) :
          tools = [n \in Names |->
                      [BaseTool EXCEPT
                          !.source = IF n = "c" THEN "Version" ELSE "Url",
                          !.obsoletes = o[n]]]
    /\ selected \in {Names, {"a", "b"}}
    /\ mode = "install" /\ toolchain = TRUE
    /\ \E fp0 \in SUBSET Names : InitRun(fp0)

\* Package sources with restricted tools, their source filled in or not.
RestrictedSourceMaps == [Names -> {"Url", "Restricted", "RestrictedUnset"}]

\* Runs that differ in which restricted tools still lack their source; the
\* first tool replaces the last one.
InitRestricted ==
    /\ \E s \in RestrictedSourceMaps :
          tools = [n \in Names |->
                      [BaseTool EXCEPT
                          !.source = s[n],
                          !.obsoletes = IF n = "a" THEN <<"c">> ELSE <<>>]]
    /\ selected \in {Names, {"a", "b"}}
    /\ mode = "install" /\ toolchain = TRUE
    /\ \E fp0 \in {{}, {"c"}} : InitRun(fp0)

\* Updates that differ in the phases of the tools, in what is already
\* installed and in whether toolchain components are selected.
InitUpdate ==
    /\ \E s \in SourceMaps :
          tools = [n \in Names |->
                      [BaseTool EXCEPT
                          !.source = s[n],
                          !.obsoletes = IF n = "a" THEN <<"c">> ELSE <<>>]]
    /\ selected \in {Names, {"a", "b"}}
    /\ mode = "update" /\ toolchain \in BOOLEAN
    /\ \E fp0 \in {{}, {"c"}, Names} : InitRun(fp0)

\* Updates whose first tool names the second in its conflicts list, with
\* both of them selected or only the first.
InitUpdateConflict ==
    /\ tools = [n \in Names |->
                  [BaseTool EXCEPT
                      !.conflicts = IF n = "a" THEN {"b"} ELSE {}]]
    /\ selected \in {Names, {"a", "c"}}
    /\ mode = "update" /\ toolchain \in BOOLEAN
    /\ InitRun({})

\* Runs of four tools that are all installed in one phase, the early or the
\* late one.
InitPhase ==
    /\ \E late \in BOOLEAN :
          tools = [n \in PhaseNames |->
                      [BaseTool EXCEPT
                          !.requires = IF late THEN {"rust"} ELSE {}]]
    /\ selected = PhaseNames
    /\ mode = "install" /\ toolchain = TRUE
    /\ InitRun({})

Init ==
    \/ InitConflicts
    \/ InitRequires
    \/ InitObsoletes
    \/ InitRestricted
    \/ InitUpdate
    \/ InitUpdateConflict
    \/ InitPhase

-----------------------------------------------------------------------------
(* InstallationErrors and the master progress. *)

add_tool_error(errs, name, msg) ==
    [errs EXCEPT !.tool_errors = Append(@, <<name, msg>>)]

add_rust_error(errs, msg) == [errs EXCEPT !.rust_error = msg]

add_step_error(errs, step, msg) ==
    [errs EXCEPT !.step_errors = Append(@, <<step, msg>>)]

has_errors(errs) ==
    \/ errs.tool_errors # <<>>
    \/ errs.rust_error # "none"
    \/ errs.step_errors # <<>>

inc_progress(m, val) == [m EXCEPT !.pos = @ + val]

\* One entry of the trace of attempts.
Event(op, name, ok) ==
    [op |-> op, name |-> name, late |-> use_rust, ok |-> ok]

-----------------------------------------------------------------------------
(* install(): conflict check, start of the master progress, setup, and the *)
(* two configuration steps whose failure is only recorded.                 *)

\* Faulty variant: the conflict check comes after start_master and setup.
RejectConflictingTools_AfterSetup ==
    /\ pc = "install"
    /\ IF ConflictPairs # {}
         THEN /\ pc' = "returned"
              /\ result' = "conflict"
              /\ master' = [started |-> TRUE, len |-> MasterLen,
                            pos |-> SetupDelta, finished |-> FALSE]
              /\ disk' = [disk EXCEPT !.setup = TRUE]
         ELSE /\ pc' = "start_master"
              /\ UNCHANGED <<result, master, disk>>
    /\ UNCHANGED <<inputs, errors, install_record, record_file,
                   toolchain_is_installed, use_rust, to_install, trace>>

RejectConflictingTools ==
    /\ pc = "install"
    /\ IF reject_conflicting_tools
         THEN pc' = "returned" /\ result' = "conflict"
         ELSE pc' = "start_master" /\ UNCHANGED result
    /\ UNCHANGED <<inputs, errors, install_record, record_file, disk,
                   toolchain_is_installed, master, use_rust, to_install,
                   trace>>

StartMaster ==
    /\ pc = "start_master"
    /\ master' = [started |-> TRUE, len |-> MasterLen, pos |-> 0,
                  finished |-> FALSE]
    /\ pc' = "setup"
    /\ UNCHANGED <<inputs, result, errors, install_record,
                   record_file, disk, toolchain_is_installed, use_rust,
                   to_install, trace>>

\* setup()?: a failure leaves what it had written and ends the run.
Setup ==
    /\ pc = "setup"
    /\ \E ok \in BOOLEAN :
          IF ok
            THEN /\ disk' = [disk EXCEPT !.setup = TRUE]
                 /\ master' = inc_progress(master, SetupDelta)
                 /\ pc' = "config_env_vars"
                 /\ UNCHANGED result
            ELSE /\ \E part \in BOOLEAN : disk' = [disk EXCEPT !.setup = part]
                 /\ pc' = "returned"
                 /\ result' = "setup_error"
                 /\ UNCHANGED master
    /\ UNCHANGED <<inputs, errors, install_record, record_file,
                   toolchain_is_installed, use_rust, to_install, trace>>

\* Faulty variant: a failure of config_env_vars is returned with `?`.
ConfigEnvVars_Fatal ==
    /\ pc = "config_env_vars"
    /\ \E ok \in BOOLEAN :
          IF ok
            THEN /\ disk' = [disk EXCEPT !.env = TRUE]
                 /\ pc' = "config_cargo"
                 /\ UNCHANGED result
            ELSE /\ pc' = "returned"
                 /\ result' = "env_error"
                 /\ UNCHANGED disk
    /\ UNCHANGED <<inputs, errors, install_record, record_file,
                   toolchain_is_installed, master, use_rust, to_install,
                   trace>>

ConfigEnvVars ==
    /\ pc = "config_env_vars"
    /\ \E ok \in BOOLEAN :
          IF ok
            THEN disk' = [disk EXCEPT !.env = TRUE] /\ UNCHANGED errors
            ELSE /\ errors' = add_step_error(errors, "config_env_vars", "failed")
                 /\ UNCHANGED disk
    /\ pc' = "config_cargo"
    /\ UNCHANGED <<inputs, result, install_record, record_file,
                   toolchain_is_installed, master, use_rust, to_install,
                   trace>>

ConfigCargo ==
    /\ pc = "config_cargo"
    /\ \E ok \in BOOLEAN :
          IF ok
            THEN /\ disk' = [disk EXCEPT !.cargo = TRUE]
                 /\ master' = inc_progress(master, CargoDelta)
                 /\ UNCHANGED errors
            ELSE /\ errors' = add_step_error(errors, "config_cargo", "failed")
                 /\ UNCHANGED <<disk, master>>
    /\ pc' = "install_tools"
    /\ UNCHANGED <<inputs, result, install_record, record_file,
                   toolchain_is_installed, use_rust, to_install, trace>>

-----------------------------------------------------------------------------
(* install_tools_(use_rust, tools, weight, errors).                        *)

\* Where install() goes on after a tool phase.
AfterPhase(late) ==
    IF late THEN "finish"
    ELSE IF mode = "update" THEN "install_tools_late"
    ELSE IF mode = "component" THEN "report"
    ELSE "install_rust"

\* The weight install() and update_tools() give each tool phase.
PhaseWeight == IF mode = "update" THEN UpdateToolsWeight ELSE ToolsWeight

\* Faulty variant: the late phase is never skipped.
skip_without_toolchain_Never(late, filtered) == FALSE

\* The late phase is skipped: it needs a toolchain and there is none.
skip_without_toolchain(late, filtered) ==
    late /\ ~toolchain_is_installed /\ filtered # <<>>

\* Faulty variant: a failed attempt ends the loop.
rest_of_loop_Break(queue, ok) == IF ok THEN Tail(queue) ELSE <<>>

\* The loop goes on with the next tool whether the attempt failed or not.
rest_of_loop(queue, ok) == Tail(queue)

\* The part of install_tools_ before its loop: the filter, the skip of the
\* late phase without a toolchain, the empty phase, the sort and reversal.
BeginPhase(late, weight) ==
    LET filtered == Filtered(late)
    IN  /\ use_rust' = late
        /\ IF skip_without_toolchain(late, filtered)
             THEN /\ errors' =
                        [errors EXCEPT !.tool_errors = @ \o
                            [i \in 1..Len(filtered) |->
                                <<filtered[i], "no_toolchain_installed">>]]
                  /\ master' = inc_progress(master, weight)
                  /\ pc' = AfterPhase(late)
                  /\ UNCHANGED to_install
             ELSE IF filtered = <<>>
             THEN /\ master' = inc_progress(master, weight)
                  /\ pc' = AfterPhase(late)
                  /\ UNCHANGED <<errors, to_install>>
             ELSE /\ to_install' = PhaseOrder(late)
                  /\ pc' = "tool_loop"
                  /\ UNCHANGED <<errors, master>>
        /\ UNCHANGED <<inputs, result, install_record, record_file,
                       disk, toolchain_is_installed, trace>>

InstallTools == pc = "install_tools" /\ BeginPhase(FALSE, PhaseWeight)

InstallToolsLate == pc = "install_tools_late" /\ BeginPhase(TRUE, PhaseWeight)

\* InstallationRecord::remove_tool_record on the tools of a record.
remove_tool_record(rec, name) == rec \ {name}

\* Tool::from_installed(name, record): the installer of a recorded tool.
from_installed(name, rec) == name \in rec

\* Faulty variant: the record of the uninstalled tool is left in place.
drop_obsoleted_KeepRecord(st, name) ==
    [st EXCEPT !.dtools = @ \ {name},
               !.ev = Append(@, Event("uninstall", name, TRUE))]

\* tool.uninstall returned Ok: the tool is off the disk and its record is
\* removed from the record in memory.
drop_obsoleted(st, name) ==
    [st EXCEPT !.rec = remove_tool_record(@, name),
               !.dtools = @ \ {name},
               !.ev = Append(@, Event("uninstall", name, TRUE))]

\* remove_obsoleted_tools: uninstall each obsoleted tool that has a record
\* and drop its record; the uninstall at position failAt fails.
RECURSIVE remove_obsoleted_tools(_, _, _, _)
remove_obsoleted_tools(obs, i, failAt, st) ==
    IF i > Len(obs) THEN st
    ELSE IF ~from_installed(obs[i], st.rec)
    THEN remove_obsoleted_tools(obs, i + 1, failAt, st)
    ELSE IF i = failAt
    THEN [st EXCEPT !.ok = FALSE,
                    !.ev = Append(@, Event("uninstall", obs[i], FALSE))]
    ELSE remove_obsoleted_tools(obs, i + 1, failAt,
                                drop_obsoleted(st, obs[i]))

\* Faulty variant: a restricted tool passes without its source.
has_source_UnsetPasses(info) == info.source # "NoSource"

\* install_tool has a package source to install from.
has_source(info) == info.source \notin {"RestrictedUnset", "NoSource"}

\* InstallationRecord::add_tool_record on the tools of a record.
add_tool_record(rec, name) == rec \cup {name}

\* Faulty variants: the record is never added, or added before the install.
record_after_install_Skipped(rec, name, ok) == rec

record_after_install_Early(rec, name, ok) == add_tool_record(rec, name)

\* The end of install_tool: add_tool_record is reached only when every step
\* before it returned Ok.
record_after_install(rec, name, ok) ==
    IF ok THEN add_tool_record(rec, name) ELSE rec

\* One pass of the loop of install_tools_: install_tool(name, tool), then
\* the progress update, with the error recorded when it failed.
InstallTool ==
    /\ pc = "tool_loop"
    /\ to_install # <<>>
    /\ LET name == Head(to_install)
           info == tools[name]
           obs == obsoletes(info)
       IN \E failAt \in {0} \cup {i \in DOMAIN obs :
                                    obs[i] \in install_record.tools},
             fetched \in BOOLEAN :
          LET st == remove_obsoleted_tools(obs, 1, failAt,
                        [ok |-> TRUE, rec |-> install_record.tools,
                         dtools |-> disk.tools, ev |-> <<>>])
              ok == st.ok /\ has_source(info) /\ fetched
              msg == IF ~st.ok THEN "obsolete_removal"
                     ELSE IF ~has_source(info) THEN "missing_source"
                     ELSE "install_failed"
          IN  /\ (~st.ok \/ ~has_source(info)) => fetched
              /\ install_record' =
                    [install_record EXCEPT
                        !.tools = record_after_install(st.rec, name, ok)]
              /\ disk' = [disk EXCEPT
                            !.tools = IF ok THEN st.dtools \cup {name}
                                      ELSE st.dtools]
              /\ errors' = IF ok THEN errors
                           ELSE add_tool_error(errors, name, msg)
              /\ trace' = (trace \o st.ev) \o <<Event("install", name, ok)>>
              /\ to_install' = rest_of_loop(to_install, ok)
    /\ master' = inc_progress(master,
                              sub_progress_delta(PhaseWeight, use_rust))
    /\ UNCHANGED <<inputs, pc, result, record_file,
                   toolchain_is_installed, use_rust>>

\* InstallationRecord::write(): the file takes the record in memory.
write(rec, file, ok) == IF ok THEN rec ELSE file

\* The end of install_tools_: the record is saved once the loop is over.
SaveRecord ==
    /\ pc = "tool_loop"
    /\ to_install = <<>>
    /\ \E ok \in BOOLEAN :
          /\ record_file' = write(install_record, record_file, ok)
          /\ errors' = IF ok THEN errors
                       ELSE add_step_error(errors, "save_record", "failed")
    /\ pc' = AfterPhase(use_rust)
    /\ UNCHANGED <<inputs, result, install_record, disk,
                   toolchain_is_installed, master, use_rust, to_install,
                   trace>>

-----------------------------------------------------------------------------
(* install_rust and the end of install(). *)

InstallRust ==
    /\ pc = "install_rust"
    /\ \E installed \in BOOLEAN, in_path \in BOOLEAN, saved \in BOOLEAN :
          IF installed
            THEN /\ toolchain_is_installed' = in_path
                 /\ install_record' = [install_record EXCEPT !.rust = TRUE]
                 /\ record_file' = write(install_record', record_file, saved)
                 /\ disk' = [disk EXCEPT !.rust = TRUE]
                 /\ trace' = Append(trace, Event("install_rust", "rust", TRUE))
                 /\ errors' =
                      LET e1 == IF in_path THEN errors
                                ELSE add_step_error(errors, "add_to_path",
                                                    "failed")
                      IN IF saved THEN e1
                         ELSE add_step_error(e1, "save_record", "failed")
            ELSE /\ in_path /\ saved
                 /\ errors' = add_rust_error(errors, "failed")
                 /\ trace' = Append(trace, Event("install_rust", "rust", FALSE))
                 /\ UNCHANGED <<toolchain_is_installed, install_record,
                                record_file, disk>>
    /\ master' = inc_progress(master, RustDelta)
    /\ pc' = "install_tools_late"
    /\ UNCHANGED <<inputs, result, use_rust, to_install>>

\* The head of update(): start_master, the manifest copy written into the
\* install dir and the env vars set for the current process; a failure of
\* either is returned with `?`.
UpdatePrepare ==
    /\ pc = "update"
    /\ \E ok \in BOOLEAN :
          IF ok
            THEN /\ master' = [started |-> TRUE, len |-> MasterLen,
                               pos |-> UpdateEnvDelta, finished |-> FALSE]
                 /\ pc' = "update_toolchain"
                 /\ UNCHANGED result
            ELSE /\ master' = [started |-> TRUE, len |-> MasterLen,
                               pos |-> 0, finished |-> FALSE]
                 /\ pc' = "returned"
                 /\ result' = "update_error"
    /\ UNCHANGED <<inputs, errors, install_record, record_file, disk,
                   toolchain_is_installed, use_rust, to_install, trace>>

\* update_toolchain, called when toolchain components are selected; its
\* error, the failed write of the record included, is a step error.
UpdateToolchain ==
    /\ pc = "update_toolchain"
    /\ IF ~toolchain
         THEN UNCHANGED <<errors, install_record, record_file, disk, master,
                          trace>>
         ELSE \E updated \in BOOLEAN, saved \in BOOLEAN :
                IF updated
                  THEN /\ install_record' =
                            [install_record EXCEPT !.rust = TRUE]
                       /\ record_file' =
                            write(install_record', record_file, saved)
                       /\ disk' = [disk EXCEPT !.rust = TRUE]
                       /\ trace' = Append(trace,
                                      Event("update_toolchain", "rust", TRUE))
                       /\ IF saved
                            THEN /\ master' =
                                      inc_progress(master, UpdateRustDelta)
                                 /\ UNCHANGED errors
                            ELSE /\ errors' = add_step_error(errors,
                                                "update_toolchain", "failed")
                                 /\ UNCHANGED master
                  ELSE /\ saved
                       /\ errors' = add_step_error(errors, "update_toolchain",
                                                   "failed")
                       /\ trace' = Append(trace,
                                      Event("update_toolchain", "rust", FALSE))
                       /\ UNCHANGED <<install_record, record_file, disk,
                                      master>>
    /\ pc' = "install_tools"
    /\ UNCHANGED <<inputs, result, toolchain_is_installed, use_rust,
                   to_install>>

\* errors.report(), finish_master, Ok(()).
Finish ==
    /\ pc = "finish"
    /\ master' = [master EXCEPT !.finished = TRUE]
    /\ result' = "ok"
    /\ pc' = "returned"
    /\ UNCHANGED <<inputs, errors, install_record, record_file, disk,
                   toolchain_is_installed, use_rust, to_install, trace>>

-----------------------------------------------------------------------------

Next ==
    \/ RejectConflictingTools
    \/ StartMaster
    \/ Setup
    \/ ConfigEnvVars
    \/ ConfigCargo
    \/ InstallTools
    \/ InstallTool
    \/ SaveRecord
    \/ InstallRust
    \/ InstallToolsLate
    \/ UpdatePrepare
    \/ UpdateToolchain
    \/ Finish

Spec == Init /\ [][Next]_vars

-----------------------------------------------------------------------------
(* The conflict check alone, over every conflicts map of the tools.        *)

InitReject ==
    /\ \E c \in [Names -> SUBSET Names] :
          tools = [n \in Names |-> [BaseTool EXCEPT !.conflicts = c[n]]]
    /\ selected \in SUBSET Names
    /\ mode = "install" /\ toolchain = TRUE
    /\ InitRun({})

NextReject == RejectConflictingTools

SpecReject == InitReject /\ [][NextReject]_vars

-----------------------------------------------------------------------------
(* No engine run: the state of the engine while a manifest or an archive   *)
(* is worked on.                                                           *)

NoRun ==
    /\ mode = "install" /\ toolchain = TRUE
    /\ tools = [n \in Names |-> BaseTool]
    /\ selected = {}
    /\ record0 = {}
    /\ pc = "returned"
    /\ result = "none"
    /\ errors = [tool_errors |-> <<>>, rust_error |-> "none",
                 step_errors |-> <<>>]
    /\ install_record = [tools |-> {}, rust |-> FALSE]
    /\ record_file = [tools |-> {}, rust |-> FALSE]
    /\ disk = [setup |-> FALSE, env |-> FALSE, cargo |-> FALSE,
               rust |-> FALSE, tools |-> {}]
    /\ toolchain_is_installed = FALSE
    /\ master = [started |-> FALSE, len |-> 0, pos |-> 0, finished |-> FALSE]
    /\ use_rust = FALSE
    /\ to_install = <<>>
    /\ trace = <<>>

-----------------------------------------------------------------------------
(* ToolkitManifestExt::fill_missing_package_source                         *)
(* (src/core/toolkit_manifest_ext.rs).  The manifest's tools are the       *)
(* entries of tools.target in the order the two loops visit them; an entry *)
(* is [target, name, kind, source] with kind "Url" or "Restricted" and     *)
(* source "none" while a restricted source is unset.                       *)

FillTargets == <<"linux", "all">>
FillNames == <<"a", "b">>

\* The places of a manifest an entry can stand at, in iteration order:
\* target after target, and in each target name after name.
FillSlots ==
    [i \in 1..(Len(FillTargets) * Len(FillNames)) |->
        [target |-> FillTargets[((i - 1) \div Len(FillNames)) + 1],
         name |-> FillNames[((i - 1) % Len(FillNames)) + 1]]]

\* What a slot can hold: nothing, a tool with a URL, a restricted tool
\* whose source is unset, or one whose source the manifest already gives.
FillForms == {"absent", "Url", "RestrictedUnset", "RestrictedSet"}

\* The strings the callback can return.
CallbackStrings == {"s1", "s2"}

FillEntry(slot, form) ==
    [target |-> slot.target, name |-> slot.name,
     kind |-> IF form = "Url" THEN "Url" ELSE "Restricted",
     source |-> IF form = "RestrictedSet" THEN "p0" ELSE "none"]

\* The entries of the manifest a choice of forms gives.
RECURSIVE FillEntries(_, _)
FillEntries(forms, i) ==
    IF i > Len(FillSlots) THEN <<>>
    ELSE (IF forms[i] = "absent" THEN <<>>
          ELSE <<FillEntry(FillSlots[i], forms[i])>>)
         \o FillEntries(forms, i + 1)

\* current_target_components: one Component for each tool of the current
\* target and of "all", with a copy of the tool as its tool_installer; the
\* user's selection keeps the components of the selected names.
ComponentsOf(entries, sel) ==
    LET picked == SelectSeq(entries, LAMBDA e : e.name \in sel)
    IN [i \in 1..Len(picked) |->
           [name |-> picked[i].name,
            tool_installer |-> [kind |-> picked[i].kind,
                                source |-> picked[i].source]]]

\* ToolInfo::restricted_source_mut gives Some: the tool's source is
\* ToolSource::Restricted.
restricted_source_mut(info) == info.kind = "Restricted"

\* components.iter_mut().find(|c| &c.name == name): 0 when there is none.
find_component(comps, name) ==
    IF \E k \in DOMAIN comps : comps[k].name = name
      THEN CHOOSE k \in DOMAIN comps :
              /\ comps[k].name = name
              /\ \A j \in 1..(k - 1) : comps[j].name # name
      ELSE 0

InitFill ==
    /\ NoRun
    /\ paths = "idle" /\ toml = "idle" /\ extract = "idle"
    /\ NoService
    /\ \E forms \in [1..Len(FillSlots) -> FillForms],
          sel \in SUBSET Range(FillNames) :
          LET entries == FillEntries(forms, 1)
          IN fill = [tools0 |-> entries, tools |-> entries,
                     components |-> ComponentsOf(entries, sel),
                     i |-> 1, calls |-> <<>>, result |-> "none"]

\* One pass of the inner loop: the tool at position i.
FillMissingStep ==
    /\ fill.result = "none"
    /\ fill.i <= Len(fill.tools)
    /\ LET e == fill.tools[fill.i]
           k == find_component(fill.components, e.name)
       IN IF k = 0 \/ ~restricted_source_mut(e)
            THEN fill' = [fill EXCEPT !.i = @ + 1]
            ELSE \/ fill' = [fill EXCEPT !.result = "err",
                                !.calls = Append(@, [at |-> fill.i,
                                                     ret |-> "err"])]
                 \/ \E new_val \in CallbackStrings :
                       fill' = [fill EXCEPT
                          !.i = @ + 1,
                          !.calls = Append(@, [at |-> fill.i,
                                               ret |-> new_val]),
                          !.tools[fill.i].source = new_val,
                          !.components[k].tool_installer.source =
                              IF restricted_source_mut(
                                    fill.components[k].tool_installer)
                                THEN new_val ELSE @]
    /\ UNCHANGED <<engine, paths, toml, extract, services>>

\* Both loops are over: Ok(()).
FillMissingReturn ==
    /\ fill.result = "none"
    /\ fill.i > Len(fill.tools)
    /\ fill' = [fill EXCEPT !.result = "ok"]
    /\ UNCHANGED <<engine, paths, toml, extract, services>>

NextFill == FillMissingStep \/ FillMissingReturn

SpecFill == InitFill /\ [][NextFill]_vars

-----------------------------------------------------------------------------
(* ToolkitManifest::load, package_root and adjust_paths, with              *)
(* utils::to_normalized_absolute_path (rim_common/src/utils/file_system.rs)*)
(* A path is [abs, segs]: whether it starts at the root directory, and its *)
(* segments, among them "." and "..".                                      *)

\* Most segments of a tool's path in the manifest.
MaxPathLen == 3

PathSegments == {".", "..", "x", "y"}

\* The paths of up to n segments.
SegLists(n) == UNION {[1..k -> PathSegments] : k \in 0..n}

\* The manifest files load() is called with: absolute paths, as the
\* callers make them from a file URL or from the install directory.
ManifestFiles ==
    {[abs |-> TRUE, segs |-> d \o <<"toolset-manifest.toml">>] :
        d \in {<<>>, <<"pkg">>, <<"pkg", "dist">>}}

\* Path::parent of a path with at least one segment.
parent(p) == [p EXCEPT !.segs = SubSeq(@, 1, Len(@) - 1)]

\* PathBuf::push: an absolute path replaces, a relative one is appended.
push(p, q) == IF q.abs THEN q ELSE [p EXCEPT !.segs = @ \o q.segs]

\* PathBuf::pop: nothing is removed from the root or from an empty path.
pop(p) == IF p.segs = <<>> THEN p ELSE parent(p)

\* Path::components: RootDir first for an absolute path; "." is a CurDir
\* only as the first segment of a relative path and is left out elsewhere.
components(p) ==
    (IF p.abs THEN <<"RootDir">> ELSE <<>>)
    \o SelectSeq([i \in 1..Len(p.segs) |->
                    IF p.segs[i] = "."
                      THEN (IF i = 1 /\ ~p.abs THEN "CurDir" ELSE "skip")
                    ELSE IF p.segs[i] = ".." THEN "ParentDir"
                    ELSE p.segs[i]],
                 LAMBDA c : c # "skip")

\* Faulty variant: a ".." is pushed like a normal component.
normalize_component_KeepParent(acc, c) ==
    IF c = "CurDir" THEN acc
    ELSE IF c = "RootDir" THEN [abs |-> TRUE, segs |-> <<>>]
    ELSE IF c = "ParentDir" THEN [acc EXCEPT !.segs = Append(@, "..")]
    ELSE [acc EXCEPT !.segs = Append(@, c)]

\* One pass of the loop of to_normalized_absolute_path.
normalize_component(acc, c) ==
    IF c = "CurDir" THEN acc
    ELSE IF c = "ParentDir" THEN pop(acc)
    ELSE IF c = "RootDir" THEN [abs |-> TRUE, segs |-> <<>>]
    ELSE [acc EXCEPT !.segs = Append(@, c)]

RECURSIVE normalize_from(_, _, _)
normalize_from(comps, i, acc) ==
    IF i > Len(comps) THEN acc
    ELSE normalize_from(comps, i + 1, normalize_component(acc, comps[i]))

\* to_normalized_absolute_path(path, Some(root)).
to_normalized_absolute_path(path, root) ==
    LET abs_pathbuf == IF path.abs THEN path ELSE push(root, path)
    IN normalize_from(components(abs_pathbuf), 1,
                      [abs |-> FALSE, segs |-> <<>>])

\* package_root() of a manifest that was loaded from a file.
package_root(manifest_path) == manifest_path

\* The sources without a local path, and a tool that has one of them: its
\* value is a text that normalization would change.
OtherSources == {"Version", "Git", "Url", "Restricted"}

OtherTool(kind) ==
    [kind |-> kind, value |-> [abs |-> FALSE, segs |-> <<"..", "x">>]]

\* Faulty variant: every source is taken for a local path.
path_mut_Any(tool) == TRUE

\* ToolInfo::path_mut is Some for a ToolSource::Path only.
path_mut(tool) == tool.kind = "Path"

\* The body of the loop of adjust_paths on one tool.
adjust_tool(tool, parent_dir) ==
    IF path_mut(tool)
      THEN [tool EXCEPT
              !.value = to_normalized_absolute_path(@, parent_dir)]
      ELSE tool

InitPaths ==
    /\ NoRun
    /\ fill = "idle" /\ toml = "idle" /\ extract = "idle"
    /\ NoService
    /\ \E f \in ManifestFiles, abs \in BOOLEAN, segs \in SegLists(MaxPathLen),
          kind \in OtherSources :
          /\ (abs => segs # <<>>)
          /\ paths = [file |-> f, path |-> "none", stage |-> "new",
                      tool_path0 |-> [abs |-> abs, segs |-> segs],
                      tool_path |-> [abs |-> abs, segs |-> segs],
                      adjusted_once |-> [abs |-> abs, segs |-> segs],
                      other0 |-> OtherTool(kind),
                      other |-> OtherTool(kind)]

\* ToolkitManifest::load(file): the manifest remembers the path given.
Load ==
    /\ paths.stage = "new"
    /\ paths' = [paths EXCEPT !.path = paths.file, !.stage = "loaded"]
    /\ UNCHANGED <<engine, fill, toml, extract, services>>

\* adjust_paths on a manifest with a tool that has a ToolSource::Path and
\* a tool that has another source; it is applied once, then a second time.
AdjustPaths ==
    /\ paths.stage \in {"loaded", "adjusted"}
    /\ LET parent_dir == package_root(paths.path)
           path_tool == adjust_tool([kind |-> "Path",
                                     value |-> paths.tool_path], parent_dir)
       IN paths' = [paths EXCEPT
                      !.tool_path = path_tool.value,
                      !.other = adjust_tool(@, parent_dir),
                      !.adjusted_once = IF paths.stage = "loaded"
                                          THEN path_tool.value ELSE @,
                      !.stage = IF paths.stage = "loaded" THEN "adjusted"
                                ELSE "adjusted_twice"]
    /\ UNCHANGED <<engine, fill, toml, extract, services>>

NextPaths == Load \/ AdjustPaths

SpecPaths == InitPaths /\ [][NextPaths]_vars

-----------------------------------------------------------------------------
(* A tool entry of the manifest parsed and serialized                      *)
(* (rim_common/src/types/tool_info.rs: ToolInfo, ToolInfoDetails and       *)
(* ToolSource with their serde attributes).  The text of an entry is the   *)
(* bare version string (plain) or a table, given by the keys it has.  A    *)
(* URL is written "raw" or in the normal form the Url type prints, or is   *)
(* "bad" when it does not parse as a URL.                                  *)

UrlTexts == {"absent", "raw", "norm", "bad"}

EntryTexts ==
    [plain : {FALSE},
     restricted : {"absent", "true", "false"},
     default : BOOLEAN, source : BOOLEAN,
     version : {"absent", "version", "ver"},
     git : UrlTexts, branch : BOOLEAN,
     url : UrlTexts, filename : BOOLEAN,
     path : BOOLEAN,
     required : {"absent", "true", "false"},
     requires : {"absent", "requires", "dependencies"}]

PlainText ==
    [plain |-> TRUE, restricted |-> "absent", default |-> FALSE,
     source |-> FALSE, version |-> "version", git |-> "absent",
     branch |-> FALSE, url |-> "absent", filename |-> FALSE, path |-> FALSE,
     required |-> "absent", requires |-> "absent"]

\* Url::parse accepts the text.
url_parses(u) == u \in {"raw", "norm"}

\* ToolSource is untagged: the first variant, in the order of declaration,
\* whose required fields the table has; a field that is not of the variant
\* is ignored, and `ver` is an alias in the Version variant only.
parse_source(t) ==
    IF t.restricted # "absent"
      THEN [variant |-> "Restricted", restricted |-> t.restricted = "true",
            default |-> t.default, source |-> t.source,
            version |-> t.version = "version"]
    ELSE IF url_parses(t.git)
      THEN [variant |-> "Git", git |-> "norm", branch |-> t.branch]
    ELSE IF url_parses(t.url)
      THEN [variant |-> "Url", version |-> t.version = "version",
            url |-> "norm", filename |-> t.filename]
    ELSE IF t.path
      THEN [variant |-> "Path", version |-> t.version = "version"]
    ELSE IF t.version # "absent"
      THEN [variant |-> "Version"]
    ELSE [variant |-> "None"]

\* ToolInfo is untagged: a string is Basic, a table is Complex with the
\* flattened source; `dependencies` is an alias of `requires`.
from_str(t) ==
    IF t.plain THEN [info |-> "Basic"]
    ELSE [info |-> "Complex",
          required |-> t.required = "true",
          requires |-> t.requires # "absent",
          source |-> parse_source(t)]

\* Faulty variant: `restricted` is left out when it is false.
serialize_restricted_SkipFalse(b) == IF b THEN "true" ELSE "absent"

\* The field `restricted` of a Restricted source is always written.
serialize_restricted(b) == IF b THEN "true" ELSE "false"

\* to_toml of one entry: fields that are None, false flags and empty lists
\* are left out, every field is written under its own name.
to_toml(v) ==
    IF v.info = "Basic" THEN PlainText
    ELSE LET src == v.source
             is(x) == src.variant = x
         IN [plain |-> FALSE,
             restricted |-> IF is("Restricted")
                              THEN serialize_restricted(src.restricted)
                              ELSE "absent",
             default |-> is("Restricted") /\ src.default,
             source |-> is("Restricted") /\ src.source,
             version |-> IF is("Version") THEN "version"
                         ELSE IF (is("Restricted") \/ is("Url") \/ is("Path"))
                                 /\ src.version THEN "version"
                         ELSE "absent",
             git |-> IF is("Git") THEN src.git ELSE "absent",
             branch |-> is("Git") /\ src.branch,
             url |-> IF is("Url") THEN src.url ELSE "absent",
             filename |-> is("Url") /\ src.filename,
             path |-> is("Path"),
             required |-> IF v.required THEN "true" ELSE "absent",
             requires |-> IF v.requires THEN "requires" ELSE "absent"]

InitToml ==
    /\ NoRun
    /\ fill = "idle" /\ paths = "idle" /\ extract = "idle"
    /\ NoService
    /\ \E t \in EntryTexts \cup {PlainText} :
          toml = [text |-> t, stage |-> "text", first |-> "none",
                  ser |-> "none", second |-> "none"]

\* ToolkitManifest::from_str on the text.
Parse ==
    /\ toml.stage = "text"
    /\ toml' = [toml EXCEPT !.first = from_str(toml.text),
                            !.stage = "parsed"]
    /\ UNCHANGED <<engine, fill, paths, extract, services>>

\* to_toml on the parsed manifest.
Serialize ==
    /\ toml.stage = "parsed"
    /\ toml' = [toml EXCEPT !.ser = to_toml(toml.first),
                            !.stage = "serialized"]
    /\ UNCHANGED <<engine, fill, paths, extract, services>>

\* from_str on the serialization.
Reparse ==
    /\ toml.stage = "serialized"
    /\ toml' = [toml EXCEPT !.second = from_str(toml.ser),
                            !.stage = "reparsed"]
    /\ UNCHANGED <<engine, fill, paths, extract, services>>

NextToml == Parse \/ Serialize \/ Reparse

SpecToml == InitToml /\ [][NextToml]_vars

-----------------------------------------------------------------------------
(* Extractable::extract_then_skip_solo_dir (rim_common/src/utils/          *)
(* extraction.rs) and the rest of extract_or_copy_to_with_progress         *)
(* (src/core/install.rs) for a file that loads as an archive.  A directory *)
(* tree is a node [kind |-> "dir", entries |-> name -> node]; a file is    *)
(* [kind |-> "zip"] (a supported archive), [kind |-> "exe"] (no extension) *)
(* or [kind |-> "txt"].  A path is the sequence of names below dest.       *)

EntryNames == {"bin", "w", "in.zip", "r.txt"}

Exe == [kind |-> "exe"]

EmptyDir == [kind |-> "dir", entries |-> <<>>]

\* The file a name with an extension stands for.
FileNamed(n) == IF n = "in.zip" THEN [kind |-> "zip"] ELSE [kind |-> "txt"]

\* A directory with the entries S, xb under "bin" and xw under "w".
MkDir(S, xb, xw) ==
    [kind |-> "dir",
     entries |-> [n \in S |-> IF n = "bin" THEN xb
                              ELSE IF n = "w" THEN xw
                              ELSE FileNamed(n)]]

\* The directories whose entries "bin" and "w" are taken from Sub.
DirsOver(Sub) ==
    {MkDir(S, xb, xw) : S \in SUBSET EntryNames, xb \in Sub, xw \in Sub}

\* What an archive can hold: trees of up to two levels of directories.
ArchiveContents == DirsOver({Exe} \cup DirsOver({Exe, EmptyDir}))

\* What the archive "in.zip" found inside another archive holds: tool/bin,
\* wrapper/tool/bin, bin next to a file, or a lone executable.
InnerContents ==
    {MkDir({"w"}, Exe, MkDir({"bin", "r.txt"}, EmptyDir, Exe)),
     MkDir({"w"}, Exe, MkDir({"w"}, Exe, MkDir({"bin"}, EmptyDir, Exe))),
     MkDir({"bin", "r.txt"}, EmptyDir, Exe),
     MkDir({"w"}, Exe, Exe)}

\* The stop keywords of the callers: None or "bin".
StopKeywords == {"none", "bin"}

is_dir(node) == node.kind = "dir"

is_file(node) == node.kind # "dir"

\* Extractable::is_supported: the extension is one of the archives'.
is_supported(node) == node.kind = "zip"

\* utils::is_executable on Unix: a file without an extension.
is_executable(node) == node.kind = "exe"

\* The node at a path below a tree.
RECURSIVE NodeAt(_, _)
NodeAt(tree, path) ==
    IF path = <<>> THEN tree
    ELSE NodeAt(tree.entries[Head(path)], Tail(path))

\* walk_dir(dir, false): the names of the entries of a directory.
walk_dir(node) == DOMAIN node.entries

\* Faulty variant: no name matches the keyword.
filename_matches_keyword_Never(name, stop) == FALSE

filename_matches_keyword(name, stop) == stop # "none" /\ name = stop

\* inner_ of extract_then_skip_solo_dir, from the path `root` of the tree.
RECURSIVE inner_(_, _, _)
inner_(tree, root, stop) ==
    IF ~is_dir(NodeAt(tree, root)) THEN root
    ELSE LET sub_entries == walk_dir(NodeAt(tree, root))
         IN IF Cardinality(sub_entries) = 1
              THEN LET sub_dir == CHOOSE n \in sub_entries : TRUE
                   IN IF filename_matches_keyword(sub_dir, stop)
                        THEN root
                        ELSE inner_(tree, Append(root, sub_dir), stop)
              ELSE root

\* extract_to(dest): the entries of the archive are written into dest.
extract_to(dest, content) ==
    [kind |-> "dir",
     entries |-> [n \in DOMAIN dest.entries \cup DOMAIN content.entries |->
                     IF n \in DOMAIN content.entries
                       THEN content.entries[n] ELSE dest.entries[n]]]

\* An entry of dest is a directory that has a bin directory in it.
has_bin(node) ==
    /\ is_dir(node)
    /\ "bin" \in DOMAIN node.entries
    /\ is_dir(node.entries["bin"])

\* extract_nested_archive after its extract_to: the paths it can return
\* for the tree at dest, the archive itself left out of the entries.
nested_archive_results(tree, archive_name) ==
    LET entries == walk_dir(tree) \ {archive_name}
        with_bin == {n \in entries : has_bin(tree.entries[n])}
        dirs == {n \in entries : is_dir(tree.entries[n])}
    IN  IF with_bin # {} THEN {<<n>> : n \in with_bin}
        ELSE IF Cardinality(dirs) = 1 THEN {<<n>> : n \in dirs}
        ELSE {<<>>}

InitExtract ==
    /\ NoRun
    /\ fill = "idle" /\ paths = "idle" /\ toml = "idle"
    /\ NoService
    /\ \E content \in ArchiveContents, inner \in InnerContents,
          stop \in StopKeywords :
          extract = [archive |-> content, inner |-> inner, stop |-> stop,
                     dest |-> EmptyDir, extracted_path |-> <<>>,
                     stage |-> "loaded", result |-> "none", path |-> <<>>]

\* extractable.extract_then_skip_solo_dir(dest, stop_keyword)?
ExtractThenSkipSoloDir ==
    /\ extract.stage = "loaded"
    /\ \/ extract' = [extract EXCEPT !.stage = "done",
                                      !.result = "extract_failed"]
       \/ LET tree == extract_to(extract.dest, extract.archive)
          IN extract' = [extract EXCEPT
                            !.dest = tree,
                            !.extracted_path = inner_(tree, <<>>, extract.stop),
                            !.stage = "extracted"]
    /\ UNCHANGED <<engine, fill, paths, toml, services>>

\* The rest of extract_or_copy_to_with_progress: what is made of the path
\* extract_then_skip_solo_dir returned.
ResolveExtractedPath ==
    /\ extract.stage = "extracted"
    /\ LET p == extract.extracted_path
           node == NodeAt(extract.dest, p)
           needs_extraction == Len(p) = 1 /\ is_supported(node)
           done(res, path) == [extract EXCEPT !.stage = "done",
                                              !.result = res, !.path = path]
       IN IF is_dir(node) THEN extract' = done("ok", p)
          ELSE IF needs_extraction
            THEN \/ extract' = done("extract_failed", <<>>)
                 \/ LET tree == extract_to(extract.dest, extract.inner)
                    IN \E r \in nested_archive_results(tree, p[1]) :
                          extract' = [done("ok", r) EXCEPT !.dest = tree]
          ELSE IF is_executable(node) \/ ~is_supported(node)
            THEN extract' = done("ok", p)
          ELSE LET up == SubSeq(p, 1, Len(p) - 1)
                   par == NodeAt(extract.dest, up)
                   with_bin == {n \in walk_dir(par) :
                                   has_bin(par.entries[n])}
                   dirs == {n \in walk_dir(par) : is_dir(par.entries[n])}
               IN IF has_bin(par) THEN extract' = done("ok", up)
                  ELSE IF with_bin # {}
                    THEN \E n \in with_bin :
                            extract' = done("ok", Append(up, n))
                  ELSE IF Cardinality(dirs) = 1
                    THEN \E n \in dirs :
                            extract' = done("ok", Append(up, n))
                  ELSE extract' = done("not_a_directory", <<>>)
    /\ UNCHANGED <<engine, fill, paths, toml, services>>

NextExtract == ExtractThenSkipSoloDir \/ ResolveExtractedPath

SpecExtract == InitExtract /\ [][NextExtract]_vars

-----------------------------------------------------------------------------
(* extract_nested_archive (src/core/install.rs) with its recursion.  dest  *)
(* holds, as its only entry, the archive extract_then_skip_solo_dir gave   *)
(* back.  An archive is known by its name; `contents` says which entries   *)
(* each archive holds.                                                     *)

\* The archives, outermost first.
NestedArchives == <<"a.zip", "b.zip", "c.zip">>

\* What an archive holds besides other archives: tool/bin and a text file.
PayloadNames == {"tool", "r.txt"}

\* The calls of extract_nested_archive that are followed.
MaxNestedDepth == 6

NestedNode(n) ==
    IF n = "tool" THEN MkDir({"bin"}, EmptyDir, Exe)
    ELSE IF n = "r.txt" THEN [kind |-> "txt"]
    ELSE [kind |-> "zip"]

\* The directory holding the entries S.
ContentDir(S) == [kind |-> "dir", entries |-> [n \in S |-> NestedNode(n)]]

\* Archives are finite files: an archive only holds archives that come
\* after it in NestedArchives.
NestedContents ==
    {c \in [Range(NestedArchives) ->
               SUBSET (Range(NestedArchives) \cup PayloadNames)] :
        \A i \in 1..Len(NestedArchives) :
            \A n \in c[NestedArchives[i]] \cap Range(NestedArchives) :
                IndexOf(NestedArchives, n) > i}

InitNested ==
    /\ NoRun
    /\ fill = "idle" /\ paths = "idle" /\ toml = "idle" /\ extract = "idle"
    /\ NoApp
    /\ move = "idle" /\ catalog = "idle" /\ cache = "idle" /\ config = "idle"
    /\ \E c \in NestedContents :
          nested = [contents |-> c,
                    dest |-> ContentDir({NestedArchives[1]}),
                    archive_path |-> NestedArchives[1],
                    depth |-> 1,
                    extracted |-> [n \in Range(NestedArchives) |-> 0],
                    stage |-> "load", result |-> "none", path |-> <<>>]

\* Extractable::load(archive_path)? and extractable.extract_to(dest)?
NestedExtractTo ==
    /\ nested.stage = "load"
    /\ \/ nested' = [nested EXCEPT !.stage = "done", !.result = "failed"]
       \/ nested' =
            [nested EXCEPT
               !.dest = extract_to(nested.dest,
                           ContentDir(nested.contents[nested.archive_path])),
               !.extracted[nested.archive_path] = @ + 1,
               !.stage = "scan"]
    /\ UNCHANGED <<engine, offline, apps, move, catalog, cache, config>>

\* The rest of extract_nested_archive: the entries of dest other than the
\* archive are read; the first archive among them, in the order read_dir
\* gives, is handed to a nested call; without one a directory is returned.
NestedScanEntries ==
    /\ nested.stage = "scan"
    /\ LET entries == walk_dir(nested.dest) \ {nested.archive_path}
           archives == {n \in entries :
                           /\ is_file(nested.dest.entries[n])
                           /\ is_supported(nested.dest.entries[n])}
       IN \/ nested' = [nested EXCEPT !.stage = "done", !.result = "failed"]
          \/ /\ archives # {}
             /\ nested.depth < MaxNestedDepth
             /\ \E entry \in archives :
                   nested' = [nested EXCEPT !.archive_path = entry,
                                            !.depth = @ + 1,
                                            !.stage = "load"]
          \/ /\ archives = {}
             /\ \E r \in nested_archive_results(nested.dest,
                                                nested.archive_path) :
                   nested' = [nested EXCEPT !.stage = "done",
                                            !.result = "ok", !.path = r]
    /\ UNCHANGED <<engine, offline, apps, move, catalog, cache, config>>

NextNested == NestedExtractTo \/ NestedScanEntries

SpecNested == InitNested /\ [][NextNested]_vars

-----------------------------------------------------------------------------
(* utils::move_to (rim_common/src/utils/file_system.rs) for a src that is *)
(* a file or a directory.  `renames` keeps the outcome of every fs::rename *)
(* of the call, in order.                                                  *)

RETRY_TIMES == 10

\* What one fs::rename can give: Ok, a permission-denied error, another
\* error.
RenameOutcomes == {"ok", "permission_denied", "other"}

\* Faulty variant: every error is retried.
retry_after_AnyError(outcome) == outcome # "ok"

\* The match arm that sleeps and continues the loop.
retry_after(outcome) == outcome = "permission_denied"

InitMove ==
    /\ NoRun
    /\ fill = "idle" /\ paths = "idle" /\ toml = "idle" /\ extract = "idle"
    /\ NoApp
    /\ nested = "idle" /\ catalog = "idle" /\ cache = "idle"
    /\ config = "idle"
    /\ \E force \in BOOLEAN, dest \in {"none", "old"},
          kind \in {"file", "dir"} :
          move = [force |-> force, kind |-> kind, src |-> TRUE,
                  dest |-> dest, dest0 |-> dest,
                  stage |-> "start", result |-> "none", renames |-> <<>>,
                  copied |-> "none", removed_src |-> "none"]

\* if force && dest.exists() { remove(dest)?; }
MoveRemoveDest ==
    /\ move.stage = "start"
    /\ IF move.force /\ move.dest # "none"
         THEN \/ move' = [move EXCEPT !.stage = "done",
                                      !.result = "remove_dest_error"]
              \/ move' = [move EXCEPT !.stage = "rename", !.dest = "none"]
         ELSE move' = [move EXCEPT !.stage = "rename"]
    /\ UNCHANGED <<engine, offline, apps, nested, catalog, cache, config>>

\* One turn of `for _ in 0..RETRY_TIMES { match fs::rename(src, dest) .. }`.
MoveRename ==
    /\ move.stage = "rename"
    /\ Len(move.renames) < RETRY_TIMES
    /\ \E outcome \in RenameOutcomes :
          LET tried == Append(move.renames, outcome)
          IN IF outcome = "ok"
               THEN move' = [move EXCEPT !.renames = tried, !.src = FALSE,
                                         !.dest = "moved", !.stage = "done",
                                         !.result = "ok"]
             ELSE IF retry_after(outcome)
               THEN move' = [move EXCEPT
                               !.renames = tried,
                               !.stage = IF Len(tried) < RETRY_TIMES
                                           THEN "rename" ELSE "copy"]
             ELSE move' = [move EXCEPT !.renames = tried, !.stage = "done",
                                       !.result = "rename_error"]
    /\ UNCHANGED <<engine, offline, apps, nested, catalog, cache, config>>

\* copy_as(src, dest)?
MoveCopyAs ==
    /\ move.stage = "copy"
    /\ \/ move' = [move EXCEPT !.copied = "failed", !.stage = "done",
                                !.result = "copy_error"]
       \/ move' = [move EXCEPT !.copied = "ok", !.dest = "moved",
                                !.stage = "remove_src"]
    /\ UNCHANGED <<engine, offline, apps, nested, catalog, cache, config>>

\* if remove(src).is_err() { warn!(..) }  Ok(())
MoveRemoveSrc ==
    /\ move.stage = "remove_src"
    /\ \/ move' = [move EXCEPT !.removed_src = "ok", !.src = FALSE,
                                !.stage = "done", !.result = "ok"]
       \/ move' = [move EXCEPT !.removed_src = "failed",
                                !.stage = "done", !.result = "ok"]
    /\ UNCHANGED <<engine, offline, apps, nested, catalog, cache, config>>

NextMove == MoveRemoveDest \/ MoveRename \/ MoveCopyAs \/ MoveRemoveSrc

SpecMove == InitMove /\ [][NextMove]_vars

-----------------------------------------------------------------------------
(* The toolkit list of the dist server (src/core/toolkit.rs):              *)
(* toolkits_from_server, installable_toolkits, latest_installable_toolkit. *)
(* A version string is the sequence of its characters' ASCII codes, so     *)
(* that comparing strings and parsing versions are different things.       *)

\* The packages a distribution manifest lists at most.
MaxPackages == 3

\* The calls of one process that are followed.
MaxCalls == 2

Dot == 46

\* "stable "
StablePrefix == <<115, 116, 97, 98, 108, 101, 32>>

\* "N/A", the version of an installed toolkit whose record has none.
NotAvailable == <<78, 47, 65>>

is_ascii_digit(c) == c \in 48..57

\* The decimal digits of a number.
RECURSIVE Digits(_)
Digits(n) ==
    IF n < 10 THEN <<48 + n>> ELSE Append(Digits(n \div 10), 48 + (n % 10))

\* The text of a version: a prefix, then major.minor.patch.
VersionText(prefix, v) ==
    prefix \o Digits(v[1]) \o <<Dot>> \o Digits(v[2]) \o <<Dot>>
           \o Digits(v[3])

\* raw.trim_start_matches(|c| !char::is_ascii_digit(&c))
RECURSIVE trim_version(_)
trim_version(raw) ==
    IF raw = <<>> \/ is_ascii_digit(Head(raw)) THEN raw
    ELSE trim_version(Tail(raw))

\* Ord for str: byte by byte, a proper prefix being the smaller one.
RECURSIVE str_lt(_, _)
str_lt(a, b) ==
    IF b = <<>> THEN FALSE
    ELSE IF a = <<>> THEN TRUE
    ELSE IF Head(a) # Head(b) THEN Head(a) < Head(b)
    ELSE str_lt(Tail(a), Tail(b))

\* The parts of a text between the separators.
RECURSIVE SplitFrom(_, _, _, _)
SplitFrom(s, sep, cur, acc) ==
    IF s = <<>> THEN Append(acc, cur)
    ELSE IF Head(s) = sep THEN SplitFrom(Tail(s), sep, <<>>, Append(acc, cur))
    ELSE SplitFrom(Tail(s), sep, Append(cur, Head(s)), acc)

\* The number a text of digits stands for, -1 when it is not one: empty,
\* a character that is no digit, or a leading zero.
RECURSIVE DigitsValue(_, _)
DigitsValue(s, acc) ==
    IF s = <<>> THEN acc
    ELSE IF ~is_ascii_digit(Head(s)) THEN -1
    ELSE DigitsValue(Tail(s), 10 * acc + (Head(s) - 48))

NumericPart(s) ==
    IF s = <<>> \/ (Len(s) > 1 /\ Head(s) = 48) THEN -1
    ELSE DigitsValue(s, 0)

\* str::parse::<semver::Version> for versions without pre-release or build
\* part: three numeric parts, or an error (<<>>).
semver_parse(s) ==
    LET parts == SplitFrom(s, Dot, <<>>, <<>>)
    IN IF Len(parts) = 3 /\ \A i \in 1..3 : NumericPart(parts[i]) >= 0
         THEN <<NumericPart(parts[1]), NumericPart(parts[2]),
                NumericPart(parts[3])>>
         ELSE <<>>

\* Ord for semver::Version: major, then minor, then patch.
semver_lt(x, y) ==
    \/ x[1] < y[1]
    \/ x[1] = y[1] /\ x[2] < y[2]
    \/ x[1] = y[1] /\ x[2] = y[2] /\ x[3] < y[3]

\* The comparator of toolkits.sort_by says Less: a goes before b.
sorts_before(a, b) ==
    str_lt(trim_version(b.version), trim_version(a.version))

\* Vec::sort_by is stable: an element goes in front of the first one it
\* sorts before, behind everything else already placed.
RECURSIVE insert_sorted(_, _)
insert_sorted(x, sorted) ==
    IF sorted = <<>> THEN <<x>>
    ELSE IF sorts_before(x, Head(sorted)) THEN <<x>> \o sorted
    ELSE <<Head(sorted)>> \o insert_sorted(x, Tail(sorted))

RECURSIVE sort_by(_, _)
sort_by(list, sorted) ==
    IF list = <<>> THEN sorted
    ELSE sort_by(Tail(list), insert_sorted(Head(list), sorted))

Editions == {"basic", "pro"}

\* "1.9.0", "1.10.0" and "stable 1.10.0".
CatalogVersions ==
    {VersionText(<<>>, <<1, 9, 0>>), VersionText(<<>>, <<1, 10, 0>>),
     VersionText(StablePrefix, <<1, 10, 0>>)}

\* DistPackage turned into Toolkit: the fields the three functions read.
Packages ==
    [name : {"kit"}, version : CatalogVersions, edition : Editions]

RECURSIVE PackageLists(_)
PackageLists(n) ==
    IF n = 0 THEN {<<>>}
    ELSE LET shorter == PackageLists(n - 1)
         IN shorter \cup {Append(l, p) : l \in {s \in shorter : Len(s) = n - 1},
                                          p \in Packages}

\* What the server answers with for the distribution manifest: nothing,
\* blanks, an HTML page, or a manifest with its packages.
Bodies(n) ==
    {[kind |-> k, packages |-> <<>>] : k \in {"empty", "blank", "html"}}
        \cup {[kind |-> "toml", packages |-> l] : l \in PackageLists(n)}

\* Toolkit::installed: the installed toolkit, or none.  The editions being
\* alike, the installed one is of the first.
InstalledKits ==
    [present : {TRUE}, name : {"kit"},
     version : {VersionText(<<>>, <<1, 9, 0>>),
                VersionText(StablePrefix, <<1, 10, 0>>), NotAvailable},
     edition : {"basic"}]
        \cup {[present |-> FALSE, name |-> "", version |-> <<>>,
               edition |-> "basic"]}

\* DistManifest::load of the downloaded file: the packages, none for a
\* text without any (`packages` has a serde default), or an error for a
\* text that is no TOML document.
dist_manifest_load(body) ==
    IF body.kind = "toml" THEN [ok |-> TRUE, packages |-> body.packages]
    ELSE IF body.kind \in {"empty", "blank"}
      THEN [ok |-> TRUE, packages |-> <<>>]
    ELSE [ok |-> FALSE, packages |-> <<>>]

\* file_content.trim().is_empty()
is_blank(body) == body.kind \in {"empty", "blank"}

Answer(op, res, err, list) ==
    [op |-> op, result |-> res, error |-> err, list |-> list]

\* toolkits_from_server once the download is done.
toolkits_from_server(body) ==
    IF is_blank(body)
      THEN Answer("toolkits_from_server", "error", "empty", <<>>)
    ELSE IF ~dist_manifest_load(body).ok
      THEN Answer("toolkits_from_server", "error", "parse", <<>>)
    ELSE IF dist_manifest_load(body).packages = <<>>
      THEN Answer("toolkits_from_server", "error", "no_packages", <<>>)
    ELSE Answer("toolkits_from_server", "ok", "none",
                sort_by(dist_manifest_load(body).packages, <<>>))

\* PartialEq for Toolkit: name and version.
same_toolkit(a, b) == a.name = b.name /\ a.version = b.version

\* installable_toolkits once the list is there.
installable(all_toolkits, installed) ==
    IF installed.present
      THEN LET NotInstalled(tk) == ~same_toolkit(tk, installed)
               Same(tk) == tk.edition = installed.edition
               Diff(tk) == tk.edition # installed.edition
               all == SelectSeq(all_toolkits, NotInstalled)
           IN SelectSeq(all, Same) \o SelectSeq(all, Diff)
      ELSE all_toolkits

\* Faulty variant: a toolkit of the installed version counts as newer.
is_newer_OrEqual(target_version, cur_version) ==
    ~semver_lt(target_version, cur_version)

\* target_version > cur_version
is_newer(target_version, cur_version) ==
    semver_lt(cur_version, target_version)

\* latest_installable_toolkit once the list is there.
latest_installable(all_toolkits, installed) ==
    LET same == SelectSeq(all_toolkits,
                          LAMBDA tk : tk.edition = installed.edition)
        op == "latest_installable_toolkit"
    IN IF same = <<>> THEN Answer(op, "none", "none", <<>>)
       ELSE LET maybe_latest == Head(same)
                cur_version == semver_parse(trim_version(installed.version))
                target_version ==
                    semver_parse(trim_version(maybe_latest.version))
            IN IF cur_version = <<>> \/ target_version = <<>>
                 THEN Answer(op, "error", "bad_version", <<>>)
               ELSE IF is_newer(target_version, cur_version)
                 THEN Answer(op, "some", "none", <<maybe_latest>>)
               ELSE Answer(op, "none", "none", <<>>)

NoAnswer == Answer("none", "none", "none", <<>>)

\* A process that has not asked the server for anything yet; `left` is
\* the number of its calls that are followed.
CatalogStart(body, installed, left) ==
    [body |-> body, installed |-> installed, left |-> left,
     downloads |-> 0, loaded |-> FALSE, last |-> NoAnswer]

InitCatalog ==
    /\ NoRun
    /\ fill = "idle" /\ paths = "idle" /\ toml = "idle" /\ extract = "idle"
    /\ NoApp
    /\ nested = "idle" /\ move = "idle" /\ cache = "idle"
    /\ config = "idle"
    /\ \E body \in Bodies(MaxPackages), installed \in InstalledKits :
          catalog = CatalogStart(body, installed, MaxCalls)

\* The download every call of toolkits_from_server starts with, then the
\* rest of the call; `after` is what the caller makes of a list.
FetchToolkits(op, after(_)) ==
    /\ catalog.left > 0
    /\ \/ catalog' = [catalog EXCEPT
                        !.left = @ - 1,
                        !.downloads = @ + 1,
                        !.last = Answer(op, "error", "download", <<>>)]
       \/ LET got == toolkits_from_server(catalog.body)
          IN catalog' = [catalog EXCEPT
                           !.left = @ - 1,
                           !.downloads = @ + 1,
                           !.loaded = @ \/ got.result = "ok",
                           !.last = IF got.result = "ok"
                                      THEN after(got.list)
                                      ELSE [got EXCEPT !.op = op]]

ToolkitsFromServer ==
    /\ FetchToolkits("toolkits_from_server",
                     LAMBDA l : Answer("toolkits_from_server", "ok",
                                       "none", l))
    /\ UNCHANGED <<engine, offline, apps, nested, move, cache, config>>

\* After the list, Toolkit::installed reads the installation record, which
\* can fail when there is one.
InstallableToolkits ==
    /\ \/ FetchToolkits("installable_toolkits",
                        LAMBDA l : Answer("installable_toolkits", "ok",
                                          "none",
                                          installable(l, catalog.installed)))
       \/ /\ catalog.left > 0
          /\ toolkits_from_server(catalog.body).result = "ok"
          /\ catalog.installed.present
          /\ catalog' = [catalog EXCEPT
                           !.left = @ - 1,
                           !.downloads = @ + 1,
                           !.loaded = TRUE,
                           !.last = Answer("installable_toolkits", "error",
                                           "installed", <<>>)]
    /\ UNCHANGED <<engine, offline, apps, nested, move, cache, config>>

LatestInstallableToolkit ==
    /\ catalog.installed.present
    /\ FetchToolkits("latest_installable_toolkit",
                     LAMBDA l : latest_installable(l, catalog.installed))
    /\ UNCHANGED <<engine, offline, apps, nested, move, cache, config>>

NextCatalog ==
    ToolkitsFromServer \/ InstallableToolkits \/ LatestInstallableToolkit

SpecCatalog == InitCatalog /\ [][NextCatalog]_vars

-----------------------------------------------------------------------------
(* The manifest cache (src/core/toolkit_manifest_ext.rs):                  *)
(* get_toolkit_manifest and clear_cached_manifest called by the tasks of   *)
(* one process.  A manifest is at an http URL, where the server answers    *)
(* with a body, or at a file URL.  The process either loads manifests or   *)
(* asks for the toolkit list (toolkits_from_server above).                 *)

\* The calls of get_toolkit_manifest and clear_cached_manifest followed.
MaxOps == 3

Callers == {"p", "q"}

Urls == {"http", "file"}

\* url.to_file_path() is Ok
is_file_url(url) == url = "file"

\* What is at a URL: a file of zero bytes, blanks, an HTML page, a
\* manifest, a text that is no manifest.
BodyKinds == {"empty", "blank", "html", "toml", "junk"}

Servers ==
    {s \in [Urls -> BodyKinds] : s["file"] \in {"toml", "junk"}}

\* ToolkitManifest::load of a file: only a manifest parses.
manifest_parses(body) == body = "toml"

\* The checks between the download and the parsing, then the parsing.
check_downloaded(body) ==
    IF body = "empty" THEN "empty"
    ELSE IF body = "blank" THEN "blank"
    ELSE IF body = "html" THEN "html"
    ELSE IF ~manifest_parses(body) THEN "parse"
    ELSE "ok"

\* What loading the manifest gives once the download, if any, is done.
load_manifest(url, body) ==
    IF is_file_url(url)
      THEN IF manifest_parses(body) THEN "ok" ELSE "parse"
      ELSE check_downloaded(body)

\* Faulty variant: the URL is cached whatever the loading gave.
insert_loaded_Always(manifests, url, outcome) == manifests \cup {url}

\* guard.insert(url, manifest.clone()), reached only with a manifest.
insert_loaded(manifests, url, outcome) ==
    IF outcome = "ok" THEN manifests \cup {url} ELSE manifests

\* A task that is in no call.
NoCall ==
    [op |-> "none", url |-> "http", pc |-> "idle", result |-> "none",
     hit |-> FALSE, after_clear |-> FALSE, stale |-> FALSE]

\* The process before its first call: the static of get_toolkit_manifest
\* and the static of clear_cached_manifest are two OnceLocks, both empty.
\* `cleared` holds the URLs cleared since their manifest was last cached.
CacheStart(server, left) ==
    [server |-> server,
     manifests |-> {},
     clear_static |-> [init |-> FALSE, manifests |-> {}],
     lock |-> "free",
     calls |-> [c \in Callers |-> NoCall],
     cleared |-> {},
     left |-> left]

\* The process loads manifests, or it asks for the toolkit list.
InitCache ==
    /\ NoRun
    /\ fill = "idle" /\ paths = "idle" /\ toml = "idle" /\ extract = "idle"
    /\ NoApp
    /\ nested = "idle" /\ move = "idle" /\ config = "idle"
    /\ \/ /\ \E server \in Servers : cache = CacheStart(server, MaxOps)
          /\ catalog = CatalogStart([kind |-> "toml", packages |-> <<>>],
                                    CHOOSE k \in InstalledKits : ~k.present,
                                    0)
       \/ /\ cache = CacheStart([u \in Urls |-> "toml"], 0)
          /\ \E body \in Bodies(1) :
                catalog = CatalogStart(body,
                                       CHOOSE k \in InstalledKits :
                                           ~k.present,
                                       MaxCalls)

\* A task calls get_toolkit_manifest(url) and waits at mutex.lock().await.
GetToolkitManifest(c) ==
    /\ cache.calls[c].pc \in {"idle", "done"}
    /\ cache.left > 0
    /\ \E url \in Urls :
          cache' = [cache EXCEPT
                      !.left = @ - 1,
                      !.calls[c] = [NoCall EXCEPT
                                      !.op = "get", !.url = url,
                                      !.pc = "lock",
                                      !.after_clear = url \in cache.cleared]]
    /\ UNCHANGED <<engine, offline, apps, nested, move, catalog, config>>

\* let mut guard = mutex.lock().await;
LockCache(c) ==
    /\ cache.calls[c].pc = "lock"
    /\ cache.lock = "free"
    /\ cache' = [cache EXCEPT !.lock = c, !.calls[c].pc = "lookup"]
    /\ UNCHANGED <<engine, offline, apps, nested, move, catalog, config>>

\* if let Some(mf) = guard.get(&url) { return Ok(mf.clone()); }  The guard
\* is dropped by the return; without an entry the call goes on to load the
\* manifest with the guard alive.
LookupCached(c) ==
    /\ cache.calls[c].pc = "lookup"
    /\ LET url == cache.calls[c].url
       IN IF url \in cache.manifests
            THEN cache' = [cache EXCEPT
                             !.lock = "free",
                             !.calls[c].pc = "done",
                             !.calls[c].result = "ok",
                             !.calls[c].hit = TRUE,
                             !.calls[c].stale = /\ cache.calls[c].after_clear
                                                /\ url \in cache.cleared]
            ELSE cache' = [cache EXCEPT !.calls[c].pc = "loading"]
    /\ UNCHANGED <<engine, offline, apps, nested, move, catalog, config>>

\* The manifest is read or downloaded, checked and parsed; it is put in
\* the cache and returned, or the error is returned.  The guard is dropped
\* when the function returns.
LoadManifest(c) ==
    /\ cache.calls[c].pc = "loading"
    /\ LET url == cache.calls[c].url
           done(outcome) ==
               [cache EXCEPT
                  !.lock = "free",
                  !.manifests = insert_loaded(@, url, outcome),
                  !.cleared = IF url \in insert_loaded({}, url, outcome)
                                THEN @ \ {url} ELSE @,
                  !.calls[c].pc = "done",
                  !.calls[c].result = IF outcome = "ok" THEN "ok"
                                      ELSE "error"]
       IN \/ ~is_file_url(url) /\ cache' = done("download")
          \/ cache' = done(load_manifest(url, cache.server[url]))
    /\ UNCHANGED <<engine, offline, apps, nested, move, catalog, config>>

\* clear_cached_manifest(url): the entry is removed from the map of the
\* function's own static, when that static has been set.
ClearCachedManifest(c) ==
    /\ cache.calls[c].pc \in {"idle", "done"}
    /\ cache.left > 0
    /\ \E url \in Urls :
          cache' = [cache EXCEPT
                      !.left = @ - 1,
                      !.clear_static.manifests =
                          IF cache.clear_static.init THEN @ \ {url} ELSE @,
                      !.cleared = @ \cup {url},
                      !.calls[c] = [NoCall EXCEPT !.op = "clear",
                                                  !.url = url,
                                                  !.pc = "done",
                                                  !.result = "ok"]]
    /\ UNCHANGED <<engine, offline, apps, nested, move, catalog, config>>

NextCache ==
    \/ \E c \in Callers : GetToolkitManifest(c)
    \/ \E c \in Callers : LockCache(c)
    \/ \E c \in Callers : LookupCached(c)
    \/ \E c \in Callers : LoadManifest(c)
    \/ \E c \in Callers : ClearCachedManifest(c)
    \/ ToolkitsFromServer

SpecCache == InitCache /\ [][NextCache]_vars

-----------------------------------------------------------------------------
(* The sources an InstallConfiguration works with (src/core/install.rs):   *)
(* cargo registry, rustup dist server and rustup update root, each from    *)
(* the manifest's config, from the user's input or from the built-in       *)
(* default.  An Option is "none" or its value.                             *)

SourceKeys == {"cargo_registry", "rustup_dist_server", "rustup_update_root"}

\* The values a manifest or a user can give.
SourceValues == {"mirror", "other"}

OptionalSources == [SourceKeys -> SourceValues \cup {"none"}]

\* default_cargo_registry, default_rustup_dist_server,
\* default_rustup_update_root
default_source(key) == "default"

\* Faulty variant: the second Option wins over the first.
option_or_Second(first, second) == IF second # "none" THEN second ELSE first

\* Option::or
option_or(first, second) == IF first # "none" THEN first ELSE second

\* Option::unwrap_or_else
unwrap_or_else(opt, fallback) == IF opt # "none" THEN opt ELSE fallback

\* cargo_registry(), rustup_dist_server(), rustup_update_root()
source_of(cfg, key) ==
    unwrap_or_else(option_or(cfg.manifest[key], cfg.user[key]),
                   default_source(key))

\* A text is the sequence of its pieces and an Option<text> the sequence of
\* at most one text.  The manifest's [proxy] no_proxy, and the no_proxy of
\* the process environment: unset, set to the empty text, or set.
ManifestNoProxy == {<<>>, << <<"localhost">> >>}
ProcessNoProxy == {<<>>, << <<>> >>, << <<".bar.com">> >>}
Platforms == {"unix", "windows"}

\* prev_np: the variable of the process on Windows (empty when it cannot be
\* read), the text `$no_proxy` left for the shell to expand on unix.
prev_np(platform, process) ==
    IF platform = "windows"
      THEN (IF process = <<>> THEN <<>> ELSE process[1])
      ELSE <<"$no_proxy">>

\* Faulty variant: the comma and the earlier value are always appended.
merge_no_proxy_Always(s, prev) == s \o <<",">> \o prev

\* The no_proxy handed on: the manifest's, then the earlier one if any.
merge_no_proxy(s, prev) ==
    IF prev = <<>> THEN s ELSE s \o <<",">> \o prev

\* The entries env_vars pushes for the manifest's no_proxy.
proxy_entries(cfg) ==
    IF cfg.no_proxy = <<>> THEN <<>>
    ELSE << <<"no_proxy",
              merge_no_proxy(cfg.no_proxy[1],
                             prev_np(cfg.platform, cfg.process_no_proxy))>> >>

\* InstallConfiguration::new: nothing from the user yet.
InitConfig ==
    /\ NoRun
    /\ fill = "idle" /\ paths = "idle" /\ toml = "idle" /\ extract = "idle"
    /\ NoApp
    /\ nested = "idle" /\ move = "idle" /\ catalog = "idle"
    /\ cache = "idle"
    /\ \E m \in OptionalSources, np \in ManifestNoProxy,
          os \in Platforms, cur \in ProcessNoProxy :
          config = [manifest |-> m,
                    user |-> [k \in SourceKeys |-> "none"],
                    no_proxy |-> np,
                    platform |-> os,
                    process_no_proxy |-> cur,
                    stage |-> "new",
                    env |-> [k \in SourceKeys |-> "unset"],
                    proxy_env |-> <<>>,
                    rustup |-> "unset",
                    cargo |-> "unset"]

\* with_cargo_registry, with_rustup_dist_server, with_rustup_update_root
WithSource(key) ==
    /\ config.stage = "new"
    /\ \E v \in SourceValues \cup {"none"} :
          config' = [config EXCEPT !.user[key] = v]

WithCargoRegistry ==
    /\ WithSource("cargo_registry")
    /\ UNCHANGED <<engine, offline, apps, nested, move, catalog, cache>>

WithRustupDistServer ==
    /\ WithSource("rustup_dist_server")
    /\ UNCHANGED <<engine, offline, apps, nested, move, catalog, cache>>

WithRustupUpdateRoot ==
    /\ WithSource("rustup_update_root")
    /\ UNCHANGED <<engine, offline, apps, nested, move, catalog, cache>>

\* install() or update() is called on the configuration.
BeginRun ==
    /\ config.stage = "new"
    /\ config' = [config EXCEPT !.stage = "run"]
    /\ UNCHANGED <<engine, offline, apps, nested, move, catalog, cache>>

\* env_vars: RUSTUP_DIST_SERVER and RUSTUP_UPDATE_ROOT, then the entry of
\* the manifest's no_proxy.
EnvVars ==
    /\ config.stage = "run"
    /\ config' = [config EXCEPT
                    !.env["rustup_dist_server"] =
                        source_of(config, "rustup_dist_server"),
                    !.env["rustup_update_root"] =
                        source_of(config, "rustup_update_root"),
                    !.proxy_env = proxy_entries(config)]
    /\ UNCHANGED <<engine, offline, apps, nested, move, catalog, cache>>

\* install_rust and update_toolchain: the dist server handed to the
\* toolchain installer.
ToolchainDistServer ==
    /\ config.stage = "run"
    /\ config' = [config EXCEPT
                    !.rustup = source_of(config, "rustup_dist_server")]
    /\ UNCHANGED <<engine, offline, apps, nested, move, catalog, cache>>

\* config_cargo: the registry written as the source replacing crates-io.
CargoSource ==
    /\ config.stage = "run"
    /\ config' = [config EXCEPT
                    !.cargo = source_of(config, "cargo_registry")]
    /\ UNCHANGED <<engine, offline, apps, nested, move, catalog, cache>>

NextConfig ==
    \/ WithCargoRegistry
    \/ WithRustupDistServer
    \/ WithRustupUpdateRoot
    \/ BeginRun
    \/ EnvVars
    \/ ToolchainDistServer
    \/ CargoSource

SpecConfig == InitConfig /\ [][NextConfig]_vars

-----------------------------------------------------------------------------
(* The installer window (rim_gui/src-tauri/src/installer_mode.rs):         *)
(* toolkit_version(path) and the manifest it keeps in TOOLKIT_MANIFEST.    *)
(* A manifest is [path, version]; the path "none" is Option::None, which   *)
(* stands for the built-in manifest.  The OnceLock cell is the sequence of *)
(* at most one manifest.                                                   *)

\* Most calls of toolkit_version that are followed.
MaxLoads == 3

ManifestPaths == {"none", "p", "q"}
ManifestVersions == {"1.0", "2.0"}

\* load_toolkit_: get_toolkit_manifest for the path, then adjust_paths; the
\* manifest has the path it was loaded from and the version of its file.
load_toolkit_(files, path) == [path |-> path, version |-> files[path]]

\* load_toolkit: what it returns and what TOOLKIT_MANIFEST holds after it;
\* `loads` tells whether load_toolkit_ returns Ok.
load_toolkit(cell, files, path, loads) ==
    IF cell # <<>>
      THEN LET existing == cell[1]
               version == existing.version
           IN IF existing.path # path
                THEN IF loads
                       THEN [result |-> "ok", version |-> version,
                             cell |-> <<load_toolkit_(files, path)>>]
                       ELSE [result |-> "error", version |-> "",
                             cell |-> cell]
                ELSE [result |-> "ok", version |-> version, cell |-> cell]
    ELSE IF loads
      THEN LET manifest == load_toolkit_(files, path)
           IN [result |-> "ok", version |-> manifest.version,
               cell |-> <<manifest>>]
    ELSE [result |-> "error", version |-> "", cell |-> cell]

\* The window has just been launched: nothing is cached.
InitGui ==
    /\ NoRun
    /\ fill = "idle" /\ paths = "idle" /\ toml = "idle" /\ extract = "idle"
    /\ nested = "idle" /\ move = "idle" /\ catalog = "idle"
    /\ cache = "idle" /\ config = "idle"
    /\ kit = "idle" /\ cli = "idle"
    /\ \E files \in [ManifestPaths -> ManifestVersions] :
          gui = [files |-> files,
                 TOOLKIT_MANIFEST |-> <<>>,
                 left |-> MaxLoads,
                 last |-> [path |-> "none", result |-> "none",
                           version |-> ""]]

\* The command toolkit_version(path).
ToolkitVersion ==
    /\ gui.left > 0
    /\ \E path \in ManifestPaths, loads \in BOOLEAN :
          LET got == load_toolkit(gui.TOOLKIT_MANIFEST, gui.files, path,
                                  loads)
          IN gui' = [gui EXCEPT
                       !.left = @ - 1,
                       !.TOOLKIT_MANIFEST = got.cell,
                       !.last = [path |-> path, result |-> got.result,
                                 version |-> got.version]]
    /\ UNCHANGED <<engine, offline, nested, move, catalog, cache, config,
                   kit, cli>>

NextGui == ToolkitVersion

SpecGui == InitGui /\ [][NextGui]_vars

-----------------------------------------------------------------------------
(* The installed toolkit (src/core/toolkit.rs): Toolkit::installed and the *)
(* INSTALLED_KIT cell it caches its answer in.  The installation record is *)
(* the sequence of at most one record [name, version], each an Option      *)
(* written as a sequence of at most one text; the cell is the sequence of  *)
(* at most one toolkit [name, version].                                    *)

\* Most steps of a process that are followed.
MaxKitOps == 4

RecordNames == {<<>>, <<"kit">>}
RecordVersions == {<<>>, <<"1.0">>, <<"2.0">>}
KitRecords == [name : RecordNames, version : RecordVersions]

\* Toolkit::installed(reload_cache): the answer and the cell after it;
\* `loads` tells whether the record and its components can be read.
installed(cell, record, reload_cache, loads) ==
    IF cell # <<>> /\ ~reload_cache
      THEN [result |-> "some", toolkit |-> cell, cell |-> cell]
    ELSE IF record = <<>>
      THEN [result |-> "none", toolkit |-> <<>>, cell |-> cell]
    ELSE IF ~loads
      THEN [result |-> "error", toolkit |-> <<>>, cell |-> cell]
    ELSE LET fp == record[1]
         IN IF fp.name = <<>>
              THEN [result |-> "none", toolkit |-> <<>>, cell |-> cell]
            ELSE LET tk == [name |-> fp.name[1],
                            version |-> IF fp.version = <<>> THEN "N/A"
                                        ELSE fp.version[1]]
                 IN [result |-> "some", toolkit |-> <<tk>>, cell |-> <<tk>>]

\* A process starts, with or without an installation record.
InitKit ==
    /\ NoRun
    /\ fill = "idle" /\ paths = "idle" /\ toml = "idle" /\ extract = "idle"
    /\ nested = "idle" /\ move = "idle" /\ catalog = "idle"
    /\ cache = "idle" /\ config = "idle"
    /\ gui = "idle" /\ cli = "idle"
    /\ \E record \in {<<>>} \cup {<<r>> : r \in KitRecords} :
          kit = [record |-> record,
                 INSTALLED_KIT |-> <<>>,
                 gone_seen |-> FALSE,
                 left |-> MaxKitOps,
                 last |-> [reload_cache |-> FALSE, result |-> "none",
                           toolkit |-> <<>>, gone |-> FALSE,
                           gone_seen |-> FALSE]]

\* A call of Toolkit::installed.  `gone` notes that the record did not
\* exist at the call, `gone_seen` that a call with reload_cache = true had
\* already answered None since the record disappeared.
Installed ==
    /\ kit.left > 0
    /\ \E reload_cache \in BOOLEAN, loads \in BOOLEAN :
          LET got == installed(kit.INSTALLED_KIT, kit.record, reload_cache,
                               loads)
              gone == kit.record = <<>>
          IN kit' = [kit EXCEPT
                       !.left = @ - 1,
                       !.INSTALLED_KIT = got.cell,
                       !.gone_seen =
                           @ \/ (gone /\ reload_cache
                                 /\ got.result = "none"),
                       !.last = [reload_cache |-> reload_cache,
                                 result |-> got.result,
                                 toolkit |-> got.toolkit,
                                 gone |-> gone,
                                 gone_seen |-> kit.gone_seen]]
    /\ UNCHANGED <<engine, offline, nested, move, catalog, cache, config,
                   gui, cli>>

\* An uninstallation removes the installation record.
RemoveRecord ==
    /\ kit.left > 0
    /\ kit.record # <<>>
    /\ kit' = [kit EXCEPT !.left = @ - 1, !.record = <<>>]
    /\ UNCHANGED <<engine, offline, nested, move, catalog, cache, config,
                   gui, cli>>

\* An installation or an update writes the installation record.
WriteRecord ==
    /\ kit.left > 0
    /\ \E r \in KitRecords :
          kit' = [kit EXCEPT !.left = @ - 1, !.record = <<r>>,
                             !.gone_seen = FALSE]
    /\ UNCHANGED <<engine, offline, nested, move, catalog, cache, config,
                   gui, cli>>

NextKit == Installed \/ RemoveRecord \/ WriteRecord

SpecKit == InitKit /\ [][NextKit]_vars

-----------------------------------------------------------------------------
(* The command `component install` (src/cli/component.rs).  It runs on the *)
(* engine's state with mode "component": after its own steps it calls      *)
(* install_tools of the engine, whose actions are those of install().      *)
(* cli is [requested, components, added]: the names on the command line,   *)
(* the toolchain components among them, and whether they were added.       *)

ToolchainComponents == {"rust-src"}

\* What can stand on the command line: tools, a toolchain component and a
\* name that is no component of the manifest.
RequestNames == Names \cup ToolchainComponents \cup {"bogus"}

\* manifest.current_target_components(true)
all_comps == DOMAIN tools \cup ToolchainComponents

\* The components that are installed, and the names left in comp_set.
comps_to_install(requested) == requested \cap all_comps

invalid_components(requested) == requested \ all_comps

\* The command starts in an installation whose tools are not installed yet;
\* the ToolMap of split_components holds the requested tools.
InitCli ==
    /\ fill = "idle" /\ paths = "idle" /\ toml = "idle" /\ extract = "idle"
    /\ nested = "idle" /\ move = "idle" /\ catalog = "idle"
    /\ cache = "idle" /\ config = "idle"
    /\ gui = "idle" /\ kit = "idle"
    /\ \E s \in SourceMaps :
          tools = [n \in Names |-> [BaseTool EXCEPT !.source = s[n]]]
    /\ \E requested \in SUBSET RequestNames :
          /\ cli = [requested |-> requested, components |-> {},
                    added |-> FALSE]
          /\ selected = requested \cap Names
    /\ mode = "component" /\ toolchain = TRUE
    /\ StartOfRun({})

\* install_components up to split_components: the manifest of the
\* installation is loaded, the names that are no component are rejected,
\* and an empty request is a success.
InstallComponents ==
    /\ pc = "component"
    /\ \/ /\ pc' = "returned" /\ result' = "manifest_error"
          /\ UNCHANGED cli
       \/ IF invalid_components(cli.requested) # {}
            THEN /\ pc' = "returned" /\ result' = "invalid_components"
                 /\ UNCHANGED cli
          ELSE IF comps_to_install(cli.requested) = {}
            THEN /\ pc' = "returned" /\ result' = "ok"
                 /\ UNCHANGED cli
          ELSE /\ pc' = "add_components"
               /\ cli' = [cli EXCEPT
                            !.components =
                                cli.requested \cap ToolchainComponents]
               /\ UNCHANGED result
    /\ UNCHANGED <<mode, toolchain, tools, selected, record0, offline,
                   nested, move, catalog, cache, config, gui, kit,
                   errors, install_record, record_file, disk,
                   toolchain_is_installed, master, use_rust, to_install,
                   trace>>

\* InstallConfiguration::new(..)? and install_toolchain_components(..)?:
\* the components are added, the rust record is set and written; every
\* failure ends the command.
InstallToolchainComponents ==
    /\ pc = "add_components"
    /\ \/ /\ pc' = "returned" /\ result' = "config_error"
          /\ UNCHANGED <<cli, install_record, record_file>>
       \/ /\ pc' = "returned" /\ result' = "toolchain_error"
          /\ UNCHANGED <<cli, install_record, record_file>>
       \/ /\ cli' = [cli EXCEPT !.added = TRUE]
          /\ install_record' = [install_record EXCEPT !.rust = TRUE]
          /\ \/ /\ record_file' = install_record'
                /\ pc' = "install_tools"
                /\ UNCHANGED result
             \/ /\ pc' = "returned" /\ result' = "record_error"
                /\ UNCHANGED record_file
    /\ UNCHANGED <<mode, toolchain, tools, selected, record0, offline,
                   nested, move, catalog, cache, config, gui, kit,
                   errors, disk, toolchain_is_installed, master, use_rust,
                   to_install, trace>>

\* errors.report(), the success message, Ok(()).
Report ==
    /\ pc = "report"
    /\ pc' = "returned"
    /\ result' = "ok"
    /\ UNCHANGED <<inputs, errors, install_record, record_file, disk,
                   toolchain_is_installed, master, use_rust, to_install,
                   trace>>

NextCli ==
    \/ InstallComponents
    \/ InstallToolchainComponents
    \/ InstallTools
    \/ InstallTool
    \/ SaveRecord
    \/ Report

SpecCli == InitCli /\ [][NextCli]_vars

-----------------------------------------------------------------------------
(* Vocabulary of the properties. *)

Max(S) == CHOOSE x \in S : \A y \in S : y <= x

\* The tools of a phase.
PhaseTools(late) == {n \in selected : requires_toolchain(tools[n]) = late}

\* Positions of the install attempts of tools in the trace.
Installs == {i \in DOMAIN trace : trace[i].op = "install"}

RustRuns == {i \in DOMAIN trace : trace[i].op = "install_rust"}

HasToolError(n) ==
    \E k \in DOMAIN errors.tool_errors : errors.tool_errors[k][1] = n

HasToolErrorMsg(n, msg) ==
    \E k \in DOMAIN errors.tool_errors : errors.tool_errors[k] = <<n, msg>>

HasStepError(step) ==
    \E k \in DOMAIN errors.step_errors : errors.step_errors[k][1] = step

\* setup() returned Ok: only then has the progress moved.
SetupOk == mode = "install" /\ master.pos > 0

EnvStepDone == SetupOk /\ pc # "config_env_vars"

CargoStepDone == EnvStepDone /\ pc # "config_cargo"

RustFailed == \E i \in RustRuns : ~trace[i].ok

\* The last thing that succeeded on tool n: "install", "uninstall", "none".
LastOk(n) ==
    LET S == {i \in DOMAIN trace : /\ trace[i].name = n
                                   /\ trace[i].ok
                                   /\ trace[i].op \in {"install", "uninstall"}}
    IN IF S = {} THEN "none" ELSE trace[Max(S)].op

-----------------------------------------------------------------------------
(* Properties. *)

\* C1: install fails with a conflict error exactly when two selected tools
\* a and b exist with b named in a.conflicts; an entry naming a tool that is
\* not selected never makes it fail.
C1_ConflictIffBothSelected ==
    pc # "install" =>
        ((result = "conflict") <=>
            (\E a \in selected, b \in selected : b \in tools[a].conflicts))

C1_Witness ==
    /\ result = "conflict"
    /\ \E a \in selected, b \in selected, d \in Names \ selected :
          a # b /\ {b, d} \subseteq tools[a].conflicts

\* C2: when install is rejected for conflicting tools nothing has happened:
\* no master progress, no setup, no env or cargo configuration, no tool or
\* toolchain install or uninstall, no change or write of the record.
C2_RejectedBeforeAnyChange ==
    result = "conflict" =>
        /\ master = [started |-> FALSE, len |-> 0, pos |-> 0,
                     finished |-> FALSE]
        /\ ~disk.setup /\ ~disk.env /\ ~disk.cargo /\ ~disk.rust
        /\ disk.tools = record0
        /\ install_record = [tools |-> record0, rust |-> FALSE]
        /\ record_file = [tools |-> record0, rust |-> FALSE]
        /\ trace = <<>>
        /\ ~has_errors(errors)
        /\ ~toolchain_is_installed

C2_Witness ==
    /\ pc = "returned"
    /\ result = "conflict"
    /\ Cardinality(selected) >= 2

C4_EarlyThenToolchainThenLate ==
    \A i \in Installs :
        LET late == requires_toolchain(tools[trace[i].name])
        IN  /\ trace[i].late = late
            /\ late <=> (\E r \in RustRuns : r < i)

C4_Witness ==
    /\ pc = "returned"
    /\ \E i \in Installs, r \in RustRuns, j \in Installs :
          i < r /\ r < j /\ ~trace[i].late /\ trace[j].late

\* C5: once the conflict check and setup have succeeded install goes on to
\* its end and returns success whatever else fails, and every failure of
\* env-var configuration, cargo configuration, the toolchain install or a
\* tool install is in the error set.
C5_FailuresCollectedNotReturned ==
    /\ (SetupOk /\ pc = "returned") => result = "ok"
    /\ (SetupOk /\ pc # "returned") => ENABLED Next
    /\ (EnvStepDone /\ ~disk.env) => HasStepError("config_env_vars")
    /\ (CargoStepDone /\ ~disk.cargo) => HasStepError("config_cargo")
    /\ \A i \in RustRuns : ~trace[i].ok => errors.rust_error # "none"
    /\ \A i \in Installs : ~trace[i].ok => HasToolError(trace[i].name)

C5_Witness ==
    /\ pc = "returned"
    /\ result = "ok"
    /\ ~disk.env /\ ~disk.cargo
    /\ HasStepError("save_record")
    /\ Len(errors.tool_errors) >= 2
    /\ \E i \in Installs : ~trace[i].ok

\* C6: a failed tool install is recorded under the tool's name, the master
\* progress moves on by the tool's share of the phase weight, and the tools
\* after it in the phase still get their install attempt.
C6_FailedToolStep ==
    (/\ pc = "tool_loop"
     /\ to_install # <<>>
     /\ Len(errors'.tool_errors) > Len(errors.tool_errors))
    => /\ errors'.tool_errors =
            Append(errors.tool_errors,
                   errors'.tool_errors[Len(errors'.tool_errors)])
       /\ errors'.tool_errors[Len(errors'.tool_errors)][1] = Head(to_install)
       /\ master'.pos = master.pos
                        + (PhaseWeight \div Cardinality(PhaseTools(use_rust)))
       /\ pc' = "tool_loop"
       /\ to_install' = Tail(to_install)

C6_LaterToolsAttempted ==
    /\ pc = "tool_loop" =>
          \A n \in PhaseTools(use_rust) :
              \/ n \in Range(to_install)
              \/ \E i \in Installs : trace[i].name = n
    /\ \A i \in Installs : ~trace[i].ok => HasToolError(trace[i].name)

C6_FailureIsolated == [][C6_FailedToolStep]_vars /\ []C6_LaterToolsAttempted

C6_Witness ==
    \E i \in Installs, j \in Installs :
        /\ i < j
        /\ trace[i].late = trace[j].late
        /\ ~trace[i].ok
        /\ HasToolError(trace[i].name)

\* C7: when the toolchain install fails the failure is the run's rust error,
\* no late-phase tool is installed, each late-phase tool gets a tool error
\* of its own, and the run goes on to its end and returns success.
C7_ToolchainFailure ==
    RustFailed =>
        /\ errors.rust_error # "none"
        /\ \A i \in Installs : ~requires_toolchain(tools[trace[i].name])
        /\ PhaseTools(TRUE) \cap disk.tools \subseteq record0
        /\ pc \in {"finish", "returned"} =>
              \A n \in PhaseTools(TRUE) :
                  HasToolErrorMsg(n, "no_toolchain_installed")
        /\ pc = "returned" => (result = "ok" /\ master.finished)
        /\ pc # "returned" => ENABLED Next

C7_Witness ==
    /\ pc = "returned"
    /\ result = "ok"
    /\ RustFailed
    /\ Cardinality(PhaseTools(TRUE)) >= 2
    /\ PhaseTools(FALSE) \cap disk.tools # {}

C9_RecordedOnlyAfterSuccess ==
    /\ \A i \in Installs :
          (~trace[i].ok /\ trace[i].name \notin record0) =>
              /\ trace[i].name \notin install_record.tools
              /\ trace[i].name \notin record_file.tools
    /\ \A n \in (install_record.tools \cup record_file.tools) \ record0 :
          \E i \in Installs : trace[i].name = n /\ trace[i].ok

C9_Witness ==
    /\ pc = "returned"
    /\ \E n \in Names \ record0 :
          /\ HasToolErrorMsg(n, "obsolete_removal")
          /\ n \notin record_file.tools
    /\ record_file.tools \ record0 # {}

\* C10: at every point of a run the record file is not ahead of reality:
\* every tool it lists is installed on disk.
C10_RecordFileNotAhead == record_file.tools \subseteq disk.tools

\* C11: the record file is written after every single tool install: when
\* the install attempt of the next tool of a phase starts, the file lists
\* every tool of that phase that was installed successfully before it.
C11_WrittenAfterEveryInstall ==
    (pc = "tool_loop" /\ to_install # <<>>) =>
        \A i \in Installs :
            (/\ trace[i].late = use_rust
             /\ trace[i].ok
             /\ LastOk(trace[i].name) = "install")
            => trace[i].name \in record_file.tools

\* The events one step added to the trace.
NewEvents == SubSeq(trace', Len(trace) + 1, Len(trace'))

\* C12: before a tool T is installed every name of T.obsoletes that has a
\* fingerprint entry is uninstalled and its entry removed, names without an
\* entry are skipped, and an entry that no installed tool's obsoletes list
\* names is never removed.
C12_ObsoletesStep ==
    (pc = "tool_loop" /\ to_install # <<>>) =>
        LET T == Head(to_install)
            obs == Range(obsoletes(tools[T]))
            had == obs \cap install_record.tools
            new == NewEvents
            last == new[Len(new)]
            before == 1..(Len(new) - 1)
        IN  /\ Len(new) >= 1
            /\ last.op = "install" /\ last.name = T
            /\ \A k \in before :
                  new[k].op = "uninstall" /\ new[k].name \in had
            /\ last.ok =>
                  \A n \in had :
                      /\ \E k \in before : new[k].name = n /\ new[k].ok
                      /\ n \notin install_record'.tools
                      /\ n \notin disk'.tools
            /\ \A n \in install_record.tools \ obs :
                  /\ n \in install_record'.tools
                  /\ n \in disk.tools => n \in disk'.tools
            /\ \A n \in obs \ install_record.tools :
                  (n \in disk.tools) <=> (n \in disk'.tools)

C12_UnnamedEntriesKept ==
    \A n \in record0 :
        (\A i \in Installs : n \notin Range(obsoletes(tools[trace[i].name])))
        => /\ n \in install_record.tools
           /\ n \in record_file.tools
           /\ n \in disk.tools

UnsetAttempts ==
    {i \in Installs : tools[trace[i].name].source = "RestrictedUnset"}

\* What C13 says of an attempt whatever its error is: the tool is not
\* installed and the batch goes on.
C13_RefusedAndBatchGoesOn ==
    /\ \A i \in UnsetAttempts :
          /\ ~trace[i].ok
          /\ trace[i].name \in disk.tools => trace[i].name \in record0
          /\ trace[i].name \in install_record.tools
                => trace[i].name \in record0
          /\ HasToolError(trace[i].name)
    /\ pc = "tool_loop" =>
          \A n \in PhaseTools(use_rust) :
              \/ n \in Range(to_install)
              \/ \E i \in Installs : trace[i].name = n

\* C13 as stated: a restricted tool whose source is unset is never
\* installed, its attempt fails with a missing-source error before any
\* change for that tool, the error is collected and the batch goes on.
C13_Original ==
    /\ C13_RefusedAndBatchGoesOn
    /\ \A i \in UnsetAttempts :
          HasToolErrorMsg(trace[i].name, "missing_source")

\* C13 as amended: the error collected is the missing-source error, or the
\* error of the removal of an obsoleted tool that failed before the source
\* was looked at.
C13_UnsetSourceRefused ==
    /\ C13_RefusedAndBatchGoesOn
    /\ \A i \in UnsetAttempts :
          \/ HasToolErrorMsg(trace[i].name, "missing_source")
          \/ /\ HasToolErrorMsg(trace[i].name, "obsolete_removal")
             /\ i > 1
             /\ trace[i - 1].op = "uninstall" /\ ~trace[i - 1].ok
             /\ trace[i - 1].name
                   \in Range(obsoletes(tools[trace[i].name]))

C13_Witness ==
    /\ pc = "returned"
    /\ \E i \in UnsetAttempts, j \in Installs :
          /\ i < j
          /\ HasToolErrorMsg(trace[i].name, "missing_source")
          /\ trace[j].ok
          /\ trace[j].name \in disk.tools

\* C15: update re-runs both tool phases: every selected tool, early-phase
\* and late-phase alike, gets an install attempt during update.
C15_UpdateAttemptsEveryTool ==
    (mode = "update" /\ pc = "returned" /\ result = "ok") =>
        \A n \in selected : \E i \in Installs : trace[i].name = n

\* The positions of the tools the callback was invoked for.
FillCalled == {fill.calls[k].at : k \in DOMAIN fill.calls}

\* The string the callback returned for the tool at position i.
FillReturned(i) ==
    fill.calls[CHOOSE k \in DOMAIN fill.calls : fill.calls[k].at = i].ret

\* C14: fill_missing_package_source invokes the callback exactly for the
\* tools that are restricted, have no source yet and are among the selected
\* components; after a successful return the manifest entry and the
\* matching component of each hold the string the callback returned.
C14_CallbackExactlyForMissing ==
    fill.result = "ok" =>
        /\ FillCalled =
              {i \in DOMAIN fill.tools0 :
                  /\ fill.tools0[i].kind = "Restricted"
                  /\ fill.tools0[i].source = "none"
                  /\ find_component(fill.components,
                                    fill.tools0[i].name) # 0}
        /\ \A i \in FillCalled :
              LET k == find_component(fill.components, fill.tools[i].name)
              IN  /\ fill.tools[i].source = FillReturned(i)
                  /\ fill.components[k].tool_installer.source
                        = FillReturned(i)

\* Lexical normalization by rewriting: a "." is dropped, a segment and the
\* ".." after it are dropped together, a ".." at the root is dropped.
RECURSIVE LexicalNormal(_)
LexicalNormal(segs) ==
    LET dots == {i \in DOMAIN segs : segs[i] = "."}
        ups == {i \in DOMAIN segs :
                   i < Len(segs) /\ segs[i] # ".." /\ segs[i + 1] = ".."}
        without(S) == LET keep == {i \in DOMAIN segs : i \notin S}
                          nth(k) == CHOOSE i \in keep :
                                       Cardinality({j \in keep : j < i}) = k - 1
                      IN [k \in 1..Cardinality(keep) |-> segs[nth(k)]]
    IN  IF dots # {} THEN LexicalNormal(without(dots))
        ELSE IF ups # {}
          THEN LET i == CHOOSE i \in ups : TRUE
               IN LexicalNormal(without({i, i + 1}))
        ELSE IF segs # <<>> /\ segs[1] = ".." THEN LexicalNormal(Tail(segs))
        ELSE segs

\* C16: after adjust_paths a ToolSource::Path that was relative holds an
\* absolute path, the lexical normalization of package_root() joined with
\* the old path, with no "." and no ".." component left.
C16_AdjustedPathNormalized ==
    (paths.stage = "adjusted" /\ ~paths.tool_path0.abs) =>
        /\ paths.tool_path.abs
        /\ \A i \in DOMAIN paths.tool_path.segs :
              paths.tool_path.segs[i] \notin {".", ".."}
        /\ paths.tool_path.segs =
              LexicalNormal(package_root(paths.path).segs
                            \o paths.tool_path0.segs)

C16_Witness ==
    /\ paths.stage = "adjusted"
    /\ paths.tool_path0 = [abs |-> FALSE, segs |-> <<".", "..", "x">>]
    /\ Len(paths.path.segs) = 3
    /\ paths.tool_path = [abs |-> TRUE, segs |-> <<"pkg", "dist", "x">>]

\* C17: for a manifest loaded from a file with load(path), package_root()
\* is the directory that contains that file.
C17_PackageRootIsParentDir ==
    paths.stage # "new" => package_root(paths.path) = parent(paths.file)

\* C18: parsing the serialization of a parsed manifest entry gives an
\* entry equal to the first parse, with the aliases normalized, for every
\* form of ToolInfo.
C18_RoundTrip ==
    /\ toml.stage = "reparsed" => toml.second = toml.first
    /\ toml.stage \in {"serialized", "reparsed"} =>
          /\ toml.ser.version # "ver"
          /\ toml.ser.requires # "dependencies"

C18_Witness ==
    /\ toml.stage = "reparsed"
    /\ toml.first.info = "Complex"
    /\ toml.first.source.variant = "Restricted"
    /\ ~toml.first.source.restricted
    /\ toml.text.url = "raw"
    /\ toml.text.requires = "dependencies"
    /\ toml.ser # toml.text

\* The path extract_then_skip_solo_dir returned is reached from root through
\* directories that each hold exactly one entry, none of them named like
\* the stop keyword.
SoloChain(tree, p, stop) ==
    \A k \in 0..(Len(p) - 1) :
        LET node == NodeAt(tree, SubSeq(p, 1, k))
        IN  /\ is_dir(node)
            /\ walk_dir(node) = {p[k + 1]}
            /\ ~(stop # "none" /\ p[k + 1] = stop)

\* The descent ends at a directory: one that holds a lone entry named like
\* the stop keyword, or one that does not hold exactly one entry.
EndsAtDir(tree, p, stop) ==
    LET node == NodeAt(tree, p)
    IN  /\ is_dir(node)
        /\ \/ Cardinality(walk_dir(node)) # 1
           \/ stop # "none" /\ walk_dir(node) = {stop}

C20_NestedArchiveRecovered ==
    (/\ extract.stage = "done"
     /\ extract.result # "extract_failed"
     /\ is_supported(NodeAt(extract.archive, extract.extracted_path)))
    => /\ extract.result = "ok"
       /\ extract.dest = extract_to(extract.archive, extract.inner)
       /\ extract.path = inner_(extract.inner, <<>>, extract.stop)

-----------------------------------------------------------------------------
\* C21: nested-archive recovery is bounded: whatever the archives hold, no
\* archive is extracted a second time, and the calls of
\* extract_nested_archive never outnumber the archives.
C21_NestedRecoveryBounded ==
    /\ \A n \in Range(NestedArchives) : nested.extracted[n] <= 1
    /\ nested.depth <= Len(NestedArchives)

-----------------------------------------------------------------------------
\* Every rename of the call but the last one was refused for permissions.
OnlyDeniedBeforeLast ==
    \A i \in 1..(Len(move.renames) - 1) :
        move.renames[i] = "permission_denied"

\* The call has used up its renames, each refused for permissions.
AllRenamesDenied ==
    /\ Len(move.renames) = RETRY_TIMES
    /\ \A i \in 1..RETRY_TIMES : move.renames[i] = "permission_denied"

\* C22: move_to renames at most 10 times and only again after a
\* permission-denied error; another rename error is returned at once with
\* no copy; after 10 permission-denied renames it copies src to dest, then
\* removes src, and returns Ok even when that removal fails.
C22_RenameRetriesThenCopy ==
    /\ Len(move.renames) <= RETRY_TIMES
    /\ OnlyDeniedBeforeLast
    /\ (Len(move.renames) > 0 /\ move.renames[Len(move.renames)] = "other")
          => /\ move.stage = "done" /\ move.result = "rename_error"
             /\ move.copied = "none" /\ move.removed_src = "none"
    /\ move.copied # "none" => AllRenamesDenied
    /\ (AllRenamesDenied /\ move.stage = "done") => move.copied # "none"
    /\ move.removed_src # "none" => move.copied = "ok"
    /\ (move.copied = "ok" /\ move.stage = "done")
          => move.removed_src # "none" /\ move.result = "ok"

\* Ten refused renames, the copy made, src could not be removed: Ok.
C22_Witness ==
    /\ move.stage = "done"
    /\ AllRenamesDenied
    /\ move.copied = "ok"
    /\ move.removed_src = "failed"
    /\ move.src
    /\ move.result = "ok"

-----------------------------------------------------------------------------
\* The semver of a toolkit's version, its prefix trimmed.
SemverOf(tk) == semver_parse(trim_version(tk.version))

\* C23: the list toolkits_from_server returns is in descending semver
\* order: of two adjacent toolkits the first one's version is not lower.
C23_SortedBySemverDescending ==
    (catalog.last.op = "toolkits_from_server" /\ catalog.last.result = "ok")
        => \A i \in 1..(Len(catalog.last.list) - 1) :
              ~semver_lt(SemverOf(catalog.last.list[i]),
                         SemverOf(catalog.last.list[i + 1]))

-----------------------------------------------------------------------------
\* No toolkit of the catalog with the installed edition is newer than the
\* installed one.
NoNewerToolkit ==
    \A i \in 1..Len(catalog.body.packages) :
        LET tk == catalog.body.packages[i]
        IN tk.edition = catalog.installed.edition
              => ~semver_lt(SemverOf(catalog.installed), SemverOf(tk))

\* C24: latest_installable_toolkit returns Some(t) only for a t of the
\* installed toolkit's edition whose version is strictly greater under
\* semver than the installed one; when the catalog holds nothing newer it
\* returns None.
C24_SomeOnlyWhenStrictlyNewer ==
    catalog.last.op = "latest_installable_toolkit"
        => /\ catalog.last.result = "some"
                => LET t == catalog.last.list[1]
                   IN /\ t.edition = catalog.installed.edition
                      /\ SemverOf(catalog.installed) # <<>>
                      /\ semver_lt(SemverOf(catalog.installed), SemverOf(t))
           /\ (catalog.last.error = "none"
               /\ SemverOf(catalog.installed) # <<>>
               /\ NoNewerToolkit)
                => catalog.last.result = "none"

\* Installed 1.10.0 with a prefix; the catalog lists 1.10.0 and 1.9.0 of
\* the same edition: None.
C24_Witness ==
    /\ catalog.last.op = "latest_installable_toolkit"
    /\ catalog.last.result = "none"
    /\ catalog.installed.version = VersionText(StablePrefix, <<1, 10, 0>>)
    /\ Len(catalog.body.packages) = 2
    /\ \A i \in 1..2 :
          catalog.body.packages[i].edition = catalog.installed.edition
    /\ catalog.body.packages[1].version = VersionText(<<>>, <<1, 10, 0>>)
    /\ catalog.body.packages[2].version = VersionText(<<>>, <<1, 9, 0>>)

\* C26: once a call has loaded the toolkit list from the server, no later
\* call (toolkits_from_server, installable_toolkits or
\* latest_installable_toolkit) downloads the distribution manifest again.
C26_ListDownloadedOnce ==
    [][catalog.loaded => catalog'.downloads = catalog.downloads]_vars

-----------------------------------------------------------------------------
\* C25: clear_cached_manifest(url) invalidates the entry of that URL: no
\* get_toolkit_manifest(url) called after it is answered with the value
\* cached before the clear (stale); an entry leaves the cache only through
\* a clear of its own URL.
C25_ClearInvalidatesOneEntry ==
    [][/\ \A c \in Callers : ~cache'.calls[c].stale
       /\ \A u \in cache.manifests \ cache'.manifests :
             \E c \in Callers : /\ cache'.calls[c].op = "clear"
                                /\ cache'.calls[c].url = u]_vars

\* C27: get_toolkit_manifest never holds the cache's mutex while it reads
\* or downloads a manifest, so no call for a cached URL waits for the lock
\* behind another call's loading.
C27_NoLockWhileLoading ==
    /\ \A c \in Callers :
          cache.calls[c].pc = "loading" => cache.lock # c
    /\ \A p, q \in Callers :
          ~(/\ cache.calls[p].pc = "loading"
            /\ cache.calls[q].pc = "lock"
            /\ cache.calls[q].url \in cache.manifests)

\* The bodies the loaders refuse: nothing, blanks, a text beginning with <.
RefusedBodies == {"empty", "blank", "html"}

\* C28: a downloaded body that is empty, blank or begins with '<' makes
\* toolkits_from_server and get_toolkit_manifest return an error, and
\* get_toolkit_manifest caches nothing for the URL, so that no later call
\* for it is answered from the cache.
C28_RefusedBodyIsAnError ==
    /\ (catalog.last.op = "toolkits_from_server"
        /\ catalog.body.kind \in RefusedBodies)
          => catalog.last.result = "error"
    /\ \A url \in Urls :
          (~is_file_url(url) /\ cache.server[url] \in RefusedBodies)
             => /\ url \notin cache.manifests
                /\ \A c \in Callers :
                      (cache.calls[c].op = "get" /\ cache.calls[c].url = url)
                         => /\ ~cache.calls[c].hit
                            /\ cache.calls[c].pc = "done"
                                  => cache.calls[c].result = "error"

\* An HTML page was refused to one task and another task is downloading
\* the same URL again.
C28_Witness ==
    /\ cache.server["http"] = "html"
    /\ \E p, q \in Callers :
          /\ cache.calls[p].op = "get" /\ cache.calls[p].url = "http"
          /\ cache.calls[p].pc = "done" /\ cache.calls[p].result = "error"
          /\ cache.calls[q].op = "get" /\ cache.calls[q].url = "http"
          /\ cache.calls[q].pc = "loading"

-----------------------------------------------------------------------------
\* The source the precedence asks for: the manifest's, else the user's,
\* else the default.
ByPrecedence(key) ==
    IF config.manifest[key] # "none" THEN config.manifest[key]
    ELSE IF config.user[key] # "none" THEN config.user[key]
    ELSE "default"

\* C29: every use of the cargo registry, the rustup dist server and the
\* rustup update root takes the manifest's value when there is one, else
\* the user's, else the default.
C29_ManifestThenUserThenDefault ==
    /\ config.cargo # "unset" => config.cargo = ByPrecedence("cargo_registry")
    /\ config.rustup # "unset"
          => config.rustup = ByPrecedence("rustup_dist_server")
    /\ \A key \in {"rustup_dist_server", "rustup_update_root"} :
          config.env[key] # "unset" => config.env[key] = ByPrecedence(key)

\* Manifest and user give different values for all three and all three
\* have been used: the manifest's went through.
C29_Witness ==
    /\ \A key \in SourceKeys :
          /\ config.manifest[key] = "mirror"
          /\ config.user[key] = "other"
    /\ config.cargo = "mirror"
    /\ config.rustup = "mirror"
    /\ config.env["rustup_update_root"] = "mirror"

-----------------------------------------------------------------------------
\* What install() has added to the master progress before its first tool
\* phase: the delta of setup, and the delta of config_cargo when it passed.
AdvancedBeforeTools == SetupDelta + (IF disk.cargo THEN CargoDelta ELSE 0)

\* C30: in install the master progress has length 100 and never passes it,
\* and each tool phase has advanced it by exactly its weight of 30 once the
\* phase is over, whatever the number of tools in the phase: after the
\* early phase it stands at the earlier deltas plus 30, after the late
\* phase at the earlier deltas plus 30 for each of the three phases.
C30_ToolPhaseAdvancesItsWeight ==
    mode = "install" =>
        /\ master.started =>
              /\ master.len = MasterLen
              /\ master.pos <= master.len
        /\ pc = "install_rust"
              => master.pos = AdvancedBeforeTools + ToolsWeight
        /\ pc = "finish"
              => master.pos = AdvancedBeforeTools + ToolsWeight
                                + RustDelta + ToolsWeight

-----------------------------------------------------------------------------
\* env_vars has been called on the configuration.
EnvVarsCalled == config.env["rustup_dist_server"] # "unset"

\* The no_proxy entries among those env_vars pushed.
NoProxyEntries == SelectSeq(config.proxy_env, LAMBDA e : e[1] = "no_proxy")

\* C31: when the manifest sets no_proxy to s, env_vars yields exactly one
\* no_proxy entry: on unix s, a comma and `$no_proxy` whatever the
\* process's no_proxy is; on Windows s alone when the process's no_proxy is
\* unset or empty, else s, a comma and the process's value.
C31_NoProxyMerged ==
    (EnvVarsCalled /\ config.no_proxy # <<>>) =>
        LET s == config.no_proxy[1]
            cur == config.process_no_proxy
        IN  /\ Len(NoProxyEntries) = 1
            /\ NoProxyEntries[1][2] =
                  IF config.platform = "unix"
                    THEN s \o <<",", "$no_proxy">>
                  ELSE IF cur = <<>> \/ cur = << <<>> >>
                    THEN s
                  ELSE s \o <<",">> \o cur[1]

\* On Windows with no_proxy set in the process, the entry holds both.
C31_Witness ==
    /\ EnvVarsCalled
    /\ config.platform = "windows"
    /\ config.process_no_proxy = << <<".bar.com">> >>
    /\ config.proxy_env = << <<"no_proxy", <<"localhost", ",", ".bar.com">> >> >>

-----------------------------------------------------------------------------
\* C32: whenever the catalog holds a toolkit of the installed edition whose
\* version is strictly greater under semver than the installed one, a call
\* of latest_installable_toolkit that got the list returns Some, and what
\* it returns has the greatest version among the catalog's toolkits of that
\* edition.
C32_NewerToolkitIsReturned ==
    (/\ catalog.last.op = "latest_installable_toolkit"
     /\ catalog.last.error = "none"
     /\ SemverOf(catalog.installed) # <<>>
     /\ ~NoNewerToolkit)
        => /\ catalog.last.result = "some"
           /\ \A i \in 1..Len(catalog.body.packages) :
                 LET tk == catalog.body.packages[i]
                 IN tk.edition = catalog.installed.edition
                       => ~semver_lt(SemverOf(catalog.last.list[1]),
                                     SemverOf(tk))

-----------------------------------------------------------------------------
\* C33: toolkit_version(path) returns the version of the manifest for
\* `path`, also when a manifest loaded from another path is cached in
\* TOOLKIT_MANIFEST, and after the call the cached manifest is the one
\* for `path`.
C33_VersionOfTheLoadedManifest ==
    gui.last.result = "ok"
        => /\ gui.last.version = gui.files[gui.last.path]
           /\ gui.TOOLKIT_MANIFEST =
                 << [path |-> gui.last.path,
                     version |-> gui.files[gui.last.path]] >>

-----------------------------------------------------------------------------
\* C34: update rejects conflicting tools as install does: when a selected
\* tool names another selected tool in its conflicts list, an update that
\* has left its entry point has returned the conflict error, with the
\* master progress not started and nothing written, installed or removed.
C34_UpdateRejectsConflicts ==
    (mode = "update" /\ reject_conflicting_tools /\ pc # "update")
        => /\ pc = "returned"
           /\ result = "conflict"
           /\ ~master.started
           /\ trace = <<>>
           /\ disk.tools = record0
           /\ record_file.tools = record0

-----------------------------------------------------------------------------
\* C35: a run of install or update that has started the master progress
\* has also finished it when it returns, with success or with an error.
C35_StartedMasterIsFinished ==
    (pc = "returned" /\ master.started) => master.finished

-----------------------------------------------------------------------------
\* C36: in install, once the toolchain install has succeeded (the rust
\* record is in the fingerprint), no tool is skipped with the error
\* 'no toolchain installed', and when the run is over every tool of the
\* late phase has had its install attempt.
C36_LatePhaseRunsAfterToolchain ==
    (mode = "install" /\ install_record.rust)
        => /\ \A i \in DOMAIN errors.tool_errors :
                 errors.tool_errors[i][2] # "no_toolchain_installed"
           /\ pc \in {"finish", "returned"}
                 => \A n \in Range(Filtered(TRUE)) :
                       \E i \in DOMAIN trace :
                          /\ trace[i].op = "install"
                          /\ trace[i].name = n

-----------------------------------------------------------------------------
\* C37: when move_to(src, dest, force = true) returns an error, what was at
\* dest before the call is still there.
C37_FailedForcedMoveKeepsDest ==
    (/\ move.force
     /\ move.dest0 = "old"
     /\ move.result \in {"remove_dest_error", "rename_error", "copy_error"})
        => move.dest = "old"

-----------------------------------------------------------------------------
\* C38: the cached toolkit does not outlive the installation record: a
\* call of Toolkit::installed made while the record does not exist answers
\* None when it reloads the cache, and also when it does not but an earlier
\* reloading call has answered None since the record disappeared.
C38_CacheFollowsTheRecord ==
    (kit.last.gone /\ (kit.last.reload_cache \/ kit.last.gone_seen))
        => kit.last.result = "none"

-----------------------------------------------------------------------------
\* The tools with a recorded tool error.
ReportedTools ==
    {errors.tool_errors[i][1] : i \in DOMAIN errors.tool_errors}

\* C39: `component install` either rejects the whole request without
\* changing anything, when a requested name is no installable component,
\* or handles every requested component: when it reports success the
\* requested toolchain components were added and each requested tool,
\* cargo-installed ones included, is installed or has a recorded error.
C39_EveryRequestedComponentHandled ==
    (mode = "component" /\ pc = "returned")
        => /\ invalid_components(cli.requested) # {}
                => /\ result # "ok"
                   /\ ~cli.added
                   /\ trace = <<>>
                   /\ disk.tools = record0
                   /\ record_file = [tools |-> record0, rust |-> FALSE]
           /\ result = "ok"
                => /\ cli.requested \cap ToolchainComponents # {}
                        => cli.added
                   /\ \A n \in selected :
                         n \in disk.tools \/ n \in ReportedTools

-----------------------------------------------------------------------------
\* C40: adjust_paths is idempotent and touches only Path sources: applied a
\* second time it leaves the tool path as the first application made it,
\* and the tool with a Version, Git, Url or Restricted source and the
\* manifest's own path are as they were loaded.
C40_AdjustPathsIdempotent ==
    /\ paths.stage = "adjusted_twice"
          => paths.tool_path = paths.adjusted_once
    /\ paths.stage \in {"adjusted", "adjusted_twice"}
          => /\ paths.other = paths.other0
             /\ paths.path = paths.file

\* A relative path with a ".." has been adjusted twice: it changed the
\* first time and not the second.
C40_Witness ==
    /\ paths.stage = "adjusted_twice"
    /\ paths.tool_path0 = [abs |-> FALSE, segs |-> <<"..", "x">>]
    /\ paths.tool_path # paths.tool_path0
    /\ paths.tool_path = paths.adjusted_once
    /\ paths.other.kind = "Restricted"

====
